---------------------------- MODULE Spec2Model ----------------------------
(***************************************************************************)
(* Extension host of podman-desktop: the authentication broker             *)
(* (AuthenticationImpl) and the extension loader (ExtensionLoader).        *)
(*                                                                         *)
(* Both classes run on one event loop: a handler runs without interruption *)
(* up to its next await, so every action below is one such run, and the    *)
(* asynchronous calls in flight are kept as frames with a position (pc).   *)
(***************************************************************************)
EXTENDS Integers, Sequences, FiniteSets, TLC

(***************************************************************************)
(* Bounds of the model.                                                    *)
(***************************************************************************)
MaxGetSession == 2
MaxRequests == 3
MaxSent == 5
MaxHandles == 2

ProviderIds == {"p1", "p2"}
Urls == {"u1"}
\* A label stands for what one registration passes along with the id: its
\* label, provider and options.
Labels == {"l1", "l2"}
\* getSession is called with default options ("none") or with one of the
\* options it rejects.
Options == {"none", "forceNewSession", "silent", "clearSessionPreference"}
\* A session is named after the getSession call whose createSession made it.
SessionIds == 1..MaxGetSession

NoRequest == 0
NoProvider == ""
NoSession == 0

VARIABLES
    authenticationProviders,  \* AuthenticationImpl._authenticationProviders
    loginDialogRequests,      \* AuthenticationImpl._loginDialogRequests
    loginDialogQueue,         \* AuthenticationImpl._loginDialogQueue
    requests,                 \* every loginRequest object created so far
    callbacks,                \* every createCallback() closure (its emitter)
    sessionCalls,              \* getSession calls in flight or settled
    providerSessions,         \* the session each provider implementation
                              \* holds (AuthenticationProviderSingleAccout)
    sent,                     \* what AuthenticationImpl gave to apiSender.send
    registration,             \* per id: whether the last handle operation
                              \* was a registration or the dispose of a handle
    notifications,            \* the session-change events the providers fired
    handles,                  \* the handles registerAuthenticationProvider
                              \* returned, each with its provider's listener
    infoCall,                 \* the getAuthenticationProvidersInfo call in
                              \* flight
    authOutcome               \* what the broker call made in the last step
                              \* returned or threw, and the provider updates
                              \* and session events the step sent

authVars == <<authenticationProviders, loginDialogRequests, loginDialogQueue,
              requests, callbacks, sessionCalls, providerSessions, sent,
              registration, notifications, handles, infoCall, authOutcome>>

(***************************************************************************)
(* Extension loader: bounds, bundles on disk and state.                    *)
(***************************************************************************)
MaxCalls == 2
MaxActs == 2
MaxSubs == 2
MaxDisposals == 2

ExtIds == {"a", "b"}
Folders == {"extensions/a", "plugins/b", "plugins/empty"}
\* The directory loadPackagedFile unpacks a packaged extension into; the
\* manifest of the package declares the name of the built-in extension.
UnpackedDirectory == "unpacked/a"

\* The bundles on disk: whether the folder holds a package.json, the name
\* in it and whether it declares contributes.configuration.
HasManifest(f) == f # "plugins/empty"
ManifestName(f) == IF f \in {"extensions/a", "unpacked/a"} THEN "a" ELSE "b"
ManifestHasConfiguration(f) == f = "extensions/a"
\* What the runtime module of a bundle exports and how many disposables its
\* activate pushes. "extensions/a" exports activate, which pushes up to
\* MaxSubs disposables, and its deactivate comes and goes between hot
\* reloads; "plugins/b" exports deactivate only.
ExportsActivate(f) == IF f = "extensions/a" THEN {TRUE} ELSE {FALSE}
ExportsDeactivate(f) == IF f = "extensions/a" THEN BOOLEAN ELSE {TRUE}
Pushes(f) == IF f = "extensions/a" THEN 0..MaxSubs ELSE {0}
\* start() loads the built-in folders with removable = false and the
\* plugins directory with removable = true.
InPluginsDirectory(f) == f # "extensions/a"
BuiltinFolders == {f \in Folders : ~InPluginsDirectory(f)}
PluginFolders == {f \in Folders : InPluginsDirectory(f)}

NoAct == 0
NoExtension == [path |-> "", removable |-> FALSE]
NoError == [kind |-> "none", id |-> ""]
NoKid == [pc |-> "none", act |-> NoAct, error |-> NoError]
NoKids == [i \in ExtIds |-> NoKid]
IdleCall == [op |-> "idle", pc |-> "idle", id |-> "", path |-> "",
             removable |-> FALSE, act |-> NoAct, kids |-> NoKids,
             error |-> NoError]
NoOutcome == [op |-> "none", status |-> "none", error |-> NoError]

VARIABLES
    analyzedExtensions,   \* ExtensionLoader.analyzedExtensions
    activatedExtensions,  \* ExtensionLoader.activatedExtensions
    overrideRequireDone,  \* ExtensionLoader.overrideRequireDone
    configurations,       \* ids given to configurationRegistry
    disk,                 \* the bundle folders present on disk
    extensionRemoved,     \* 'extension-removed' sent through apiSender
    contexts,             \* the ActivatedExtension/context objects created
    calls,                \* the loader's async calls in flight
    outcome,              \* what the call that settled in the last step
                          \* settled to
    activation            \* per id: its last completed activation while no
                          \* deactivateExtension has completed on it

loaderVars == <<analyzedExtensions, activatedExtensions, overrideRequireDone,
                configurations, disk, extensionRemoved, contexts, calls,
                outcome, activation>>

(***************************************************************************)
(* The login dialog of the renderer (AuthenticaionDialog.svelte).          *)
(***************************************************************************)
VARIABLES
    displayModal,         \* whether the dialog is shown
    modalProviderId,      \* providerId of the script: the provider of the
                          \* last 'display-authentication-dialog' received
    received              \* how many of the messages sent it has received

rendererVars == <<displayModal, modalProviderId, received>>

(***************************************************************************)
(* Module loading of the extension host: the module cache loadRuntime      *)
(* cleans and the module._load that overrideRequire installs.              *)
(***************************************************************************)
MaxLoads == 4

\* The bundle folders modules are loaded from. A path is the sequence of its
\* characters, a folder name being one character and a file name another.
Bundles == {"extensions/a", "plugins/b", "plugins/bb"}

Root(f) ==
    IF f = "extensions/a" THEN <<"e", "/", "a">>
    ELSE IF f = "plugins/b" THEN <<"p", "/", "b">>
    ELSE <<"p", "/", "b", "b">>

\* The entry module of a bundle (mainPath), a second module of the bundle
\* that the entry module requires, and a native addon (….node) the entry
\* module requires, whose path starts with mainPath.
Main(f) == Root(f) \o <<"/", "m">>
Lib(f) == Root(f) \o <<"/", "l">>
Addon(f) == Main(f) \o <<"n">>

\* A module of the host application, outside every bundle.
HostModule == <<"h">>

ModuleKeys ==
    {Main(f) : f \in Bundles} \cup {Lib(f) : f \in Bundles}
        \cup {Addon("plugins/bb"), HostModule}

\* What the top-level code of a module requires.
Requires(k) ==
    {d \in ModuleKeys :
        \E f \in Bundles : k = Main(f) /\ d \in {Lib(f), Addon(f)}}

NotCached == 0
ApiName == "@tmpwip/extension-api"
Requests == {ApiName, "other"}

VARIABLES
    moduleCache,          \* require.cache: for each cached module, the load
                          \* that ran its top-level code
    registry,             \* the roots of the analyzed extensions in the order
                          \* of the map, as module._load reads them
    moduleChildren,       \* the children list of each cached module
    moduleExports,        \* the cached modules that have their exports
    loads,                \* the loadRuntime calls made so far
    moduleEvent           \* what the last loadRuntime or module._load did

moduleVars == <<moduleCache, moduleChildren, moduleExports, registry, loads,
                moduleEvent>>

vars == <<authVars, loaderVars, rendererVars, moduleVars>>

(***************************************************************************)
(* Helper on sequences.                                                    *)
(***************************************************************************)
Indices(s) == 1..Len(s)

(***************************************************************************)
(* Authentication broker                                                   *)
(***************************************************************************)
NoAuthOutcome ==
    [op |-> "none", id |-> "", sid |-> NoSession, status |-> "none",
     error |-> NoError, result |-> {}, updates |-> 0, events |-> 0,
     handle |-> 0]

AuthOutcome(op, id, sid, status, error) ==
    [op |-> op, id |-> id, sid |-> sid, status |-> status, error |-> error,
     result |-> {}, updates |-> 0, events |-> 0, handle |-> 0]

\* One 'authentication-provider-update' was sent, and with fired the broker
\* fired one onDidChangeSessions event.
Updated(o, fired) ==
    [o EXCEPT !.updates = 1, !.events = IF fired THEN 1 ELSE 0]

\* No getAuthenticationProvidersInfo call is in flight.
NoInfoCall == [pc |-> "idle", asked |-> {}, pending |-> {}, entries |-> {}]

AuthInit ==
    /\ authenticationProviders = [p \in ProviderIds |-> NoProvider]
    /\ loginDialogRequests = [p \in ProviderIds |-> NoRequest]
    /\ loginDialogQueue = <<>>
    /\ requests = <<>>
    /\ callbacks = <<>>
    /\ sessionCalls = <<>>
    /\ providerSessions = [p \in ProviderIds |-> NoSession]
    /\ sent = <<>>
    /\ registration = [p \in ProviderIds |-> "none"]
    /\ notifications = <<>>
    /\ handles = <<>>
    /\ infoCall = NoInfoCall
    /\ authOutcome = NoAuthOutcome

DisplayDialog(r, url, providerId) ==
    [name |-> "display-authentication-dialog", request |-> r,
     url |-> url, providerId |-> providerId]

CloseDialog == [name |-> "close-authentication-dialog"]

IsDisplay(m) == m.name = "display-authentication-dialog"

\* The handle a registration returns, with the listener subscribed to its
\* provider; disposed tells whether dispose() was called on the handle.
NewHandle(p) == [id |-> p, listening |-> TRUE, disposed |-> FALSE]

\* A registerAuthenticationProvider that replaces an existing registration.
RegisterReplaces(p, l) ==
    /\ Len(handles) < MaxHandles
    /\ authenticationProviders' = [authenticationProviders EXCEPT ![p] = l]
    /\ registration' = [registration EXCEPT ![p] = "registered"]
    /\ handles' = Append(handles, NewHandle(p))
    /\ authOutcome' =
          Updated(AuthOutcome("register", p, NoSession, "done", NoError),
                  FALSE)
    /\ UNCHANGED <<loaderVars, rendererVars, moduleVars, infoCall>>
    /\ UNCHANGED <<loginDialogRequests, loginDialogQueue, requests, callbacks,
                   sessionCalls, providerSessions, sent, notifications>>

\* registerAuthenticationProvider(id, label, provider, options): throws when
\* id is registered, else stores the registration, sends
\* 'authentication-provider-update', subscribes a listener to the provider's
\* onDidChangeSessions and returns the handle.
RegisterAuthenticationProvider(p, l) ==
    /\ authenticationProviders[p] = NoProvider => Len(handles) < MaxHandles
    /\ IF authenticationProviders[p] # NoProvider
       THEN /\ authOutcome' =
                  AuthOutcome("register", p, NoSession, "failed",
                              [kind |-> "alreadyRegistered", id |-> p])
            /\ UNCHANGED <<authenticationProviders, registration, handles>>
       ELSE /\ authenticationProviders' =
                  [authenticationProviders EXCEPT ![p] = l]
            /\ registration' = [registration EXCEPT ![p] = "registered"]
            /\ handles' = Append(handles, NewHandle(p))
            /\ authOutcome' =
                  Updated(AuthOutcome("register", p, NoSession, "done",
                                      NoError), FALSE)
    /\ UNCHANGED <<loaderVars, rendererVars, moduleVars, infoCall>>
    /\ UNCHANGED <<loginDialogRequests, loginDialogQueue, requests, callbacks,
                   sessionCalls, providerSessions, sent, notifications>>

\* A handle whose dispose leaves the provider registered.
DisposeKeepsProvider(h) ==
    /\ h \in Indices(handles)
    /\ handles' = [handles EXCEPT ![h].disposed = TRUE,
                                  ![h].listening = FALSE]
    /\ registration' = [registration EXCEPT ![handles[h].id] = "disposed"]
    /\ authOutcome' =
          [AuthOutcome("dispose", handles[h].id, NoSession, "done", NoError)
              EXCEPT !.handle = h]
    /\ UNCHANGED <<loaderVars, rendererVars, moduleVars, infoCall>>
    /\ UNCHANGED <<authenticationProviders, loginDialogRequests,
                   loginDialogQueue, requests, callbacks, sessionCalls,
                   providerSessions, sent, notifications>>

\* A handle whose dispose leaves the listener subscribed.
DisposeKeepsListener(h) ==
    /\ h \in Indices(handles)
    /\ authenticationProviders' =
          [authenticationProviders EXCEPT ![handles[h].id] = NoProvider]
    /\ registration' = [registration EXCEPT ![handles[h].id] = "disposed"]
    /\ authOutcome' =
          [AuthOutcome("dispose", handles[h].id, NoSession, "done", NoError)
              EXCEPT !.handle = h]
    /\ handles' = [handles EXCEPT ![h].disposed = TRUE]
    /\ UNCHANGED <<loaderVars, rendererVars, moduleVars, infoCall>>
    /\ UNCHANGED <<loginDialogRequests, loginDialogQueue, requests, callbacks,
                   sessionCalls, providerSessions, sent, notifications>>

\* dispose() of handle h, which registerAuthenticationProvider returned for
\* an id: the listener of h is unsubscribed and the entry of the id is
\* deleted.
DisposeRegistration(h) ==
    /\ h \in Indices(handles)
    /\ handles' = [handles EXCEPT ![h].disposed = TRUE,
                                  ![h].listening = FALSE]
    /\ authenticationProviders' =
          [authenticationProviders EXCEPT ![handles[h].id] = NoProvider]
    /\ registration' = [registration EXCEPT ![handles[h].id] = "disposed"]
    /\ authOutcome' =
          [AuthOutcome("dispose", handles[h].id, NoSession, "done", NoError)
              EXCEPT !.handle = h]
    /\ UNCHANGED <<loaderVars, rendererVars, moduleVars, infoCall>>
    /\ UNCHANGED <<loginDialogRequests, loginDialogQueue, requests, callbacks,
                   sessionCalls, providerSessions, sent, notifications>>

\* The values of the map: the ids of the registered providers.
ProvidersInfo == {p \in ProviderIds : authenticationProviders[p] # NoProvider}

\* What provider.getSessions() of p resolves to, read when it is called.
Accounts(p) ==
    IF providerSessions[p] = NoSession THEN {} ELSE {providerSessions[p]}

\* The entry getAuthenticationProvidersInfo builds for p: id, displayName
\* and one account for each session.
InfoEntry(p) ==
    [id |-> p, displayName |-> authenticationProviders[p],
     accounts |-> Accounts(p)]

\* getAuthenticationProvidersInfo() up to its await: getSessions() is
\* called on every provider of the map.
GetAuthenticationProvidersInfo ==
    /\ infoCall.pc = "idle"
    /\ infoCall' = [pc |-> "querying", asked |-> ProvidersInfo,
                    pending |-> ProvidersInfo,
                    entries |-> {InfoEntry(p) : p \in ProvidersInfo}]
    /\ authOutcome' = NoAuthOutcome
    /\ UNCHANGED <<loaderVars, rendererVars, moduleVars, handles>>
    /\ UNCHANGED <<authenticationProviders, loginDialogRequests,
                   loginDialogQueue, requests, callbacks, sessionCalls,
                   providerSessions, sent, registration, notifications>>

\* getSessions() of p settles, and its entry is built.
InfoQuerySettles(p) ==
    /\ infoCall.pc = "querying"
    /\ p \in infoCall.pending
    /\ infoCall' = [infoCall EXCEPT !.pending = @ \ {p}]
    /\ authOutcome' = NoAuthOutcome
    /\ UNCHANGED <<loaderVars, rendererVars, moduleVars, handles>>
    /\ UNCHANGED <<authenticationProviders, loginDialogRequests,
                   loginDialogQueue, requests, callbacks, sessionCalls,
                   providerSessions, sent, registration, notifications>>

\* The entries built so far.
Built == {e \in infoCall.entries : e.id \notin infoCall.pending}

\* A getAuthenticationProvidersInfo that returns as soon as one query has
\* settled.
InfoReturnsEarly ==
    /\ infoCall.pc = "querying"
    /\ infoCall.pending # infoCall.asked \/ infoCall.asked = {}
    /\ infoCall' = NoInfoCall
    /\ authOutcome' = [AuthOutcome("info", "", NoSession, "done", NoError)
                          EXCEPT !.result = Built]
    /\ UNCHANGED <<loaderVars, rendererVars, moduleVars, handles>>
    /\ UNCHANGED <<authenticationProviders, loginDialogRequests,
                   loginDialogQueue, requests, callbacks, sessionCalls,
                   providerSessions, sent, registration, notifications>>

\* await Promise.all(sessionsRequests) resumes once every query has settled,
\* and getAuthenticationProvidersInfo returns the entries.
InfoReturn ==
    /\ infoCall.pc = "querying"
    /\ infoCall.pending = {}
    /\ infoCall' = NoInfoCall
    /\ authOutcome' = [AuthOutcome("info", "", NoSession, "done", NoError)
                          EXCEPT !.result = Built]
    /\ UNCHANGED <<loaderVars, rendererVars, moduleVars, handles>>
    /\ UNCHANGED <<authenticationProviders, loginDialogRequests,
                   loginDialogQueue, requests, callbacks, sessionCalls,
                   providerSessions, sent, registration, notifications>>

\* Whether every earlier getSession call had settled.
Alone == \A c \in Indices(sessionCalls) : sessionCalls[c].pc \in {"done", "failed"}

SessionCall(p, o, pc, error) ==
    [providerId |-> p, option |-> o, pc |-> pc,
     reported |-> IF pc = "getSessions" THEN providerSessions[p]
                  ELSE NoSession,
     callback |-> 0, alone |-> Alone, error |-> error]

\* A getSession that looks the provider up before it looks at the options.
GetSessionLooksUpFirst(p, o) ==
    /\ Len(sessionCalls) < MaxGetSession
    /\ sessionCalls' = Append(sessionCalls,
          IF authenticationProviders[p] = NoProvider
          THEN SessionCall(p, o, "failed",
                           [kind |-> "notInstalled", id |-> p])
          ELSE IF o # "none"
          THEN SessionCall(p, o, "failed",
                           [kind |-> "unsupportedOption", id |-> o])
          ELSE SessionCall(p, o, "getSessions", NoError))
    /\ authOutcome' = NoAuthOutcome
    /\ UNCHANGED <<loaderVars, rendererVars, moduleVars, handles, infoCall>>
    /\ UNCHANGED <<authenticationProviders, loginDialogRequests,
                   loginDialogQueue, requests, callbacks, providerSessions,
                   sent, registration, notifications>>

\* getSession(extension, providerId, scopes, options) up to its first
\* await: it throws for an option it does not support, then for a provider
\* that is not registered, else it calls provider.getSessions, which reads
\* the provider's session at once.
GetSession(p, o) ==
    /\ Len(sessionCalls) < MaxGetSession
    /\ sessionCalls' = Append(sessionCalls,
          IF o # "none"
          THEN SessionCall(p, o, "failed",
                           [kind |-> "unsupportedOption", id |-> o])
          ELSE IF authenticationProviders[p] = NoProvider
          THEN SessionCall(p, o, "failed",
                           [kind |-> "notInstalled", id |-> p])
          ELSE SessionCall(p, o, "getSessions", NoError))
    /\ authOutcome' = NoAuthOutcome
    /\ UNCHANGED <<loaderVars, rendererVars, moduleVars, handles, infoCall>>
    /\ UNCHANGED <<authenticationProviders, loginDialogRequests,
                   loginDialogQueue, requests, callbacks, providerSessions,
                   sent, registration, notifications>>

\* The scopes an extension asks a session for: a list, never a provider id.
Scopes == "scopes"

\* _authenticationProviders.get(key)
Registered(key) ==
    IF key \in ProviderIds THEN authenticationProviders[key] ELSE NoProvider

\* authentication.getSession(providerId, scopes, options) of the capability
\* API: createApi hands the broker itself to the extension, and the broker's
\* getSession takes the requesting extension first, so that it reads the
\* extension's providerId as requestingExtension, its scopes as providerId
\* and its options as scopes, and takes the default for options.
ApiGetSession(p, o) ==
    LET providerId == Scopes
        option == "none"
    IN  IF Registered(providerId) = NoProvider
        THEN /\ authOutcome' =
                   AuthOutcome("apiGetSession", p, NoSession, "failed",
                               [kind |-> "notInstalled", id |-> providerId])
             /\ UNCHANGED <<loaderVars, rendererVars, moduleVars, handles, infoCall>>
             /\ UNCHANGED <<authenticationProviders, loginDialogRequests,
                            loginDialogQueue, requests, callbacks,
                            sessionCalls, providerSessions, sent,
                            registration, notifications>>
        ELSE GetSession(providerId, option)

\* A getSession that asks for a new session whatever getSessions returned.
GetSessionsReturnAlwaysCreates(c) ==
    /\ c \in Indices(sessionCalls)
    /\ sessionCalls[c].pc = "getSessions"
    /\ callbacks' = Append(callbacks,
                           [providerId |-> sessionCalls[c].providerId])
    /\ sessionCalls' = [sessionCalls EXCEPT
                          ![c].pc = "createSession",
                          ![c].callback = Len(callbacks) + 1]
    /\ authOutcome' = NoAuthOutcome
    /\ UNCHANGED <<loaderVars, rendererVars, moduleVars, handles, infoCall>>
    /\ UNCHANGED <<authenticationProviders, loginDialogRequests,
                   loginDialogQueue, requests, providerSessions, sent,
                   registration, notifications>>

\* getSession resumes with what provider.getSessions returned: the first
\* session is returned, or
\* provider.createSession(scopes, this.createCallback(providerId)) is called.
GetSessionsReturn(c) ==
    /\ c \in Indices(sessionCalls)
    /\ sessionCalls[c].pc = "getSessions"
    /\ LET p == sessionCalls[c].providerId IN
       IF sessionCalls[c].reported # NoSession
       THEN /\ sessionCalls' = [sessionCalls EXCEPT ![c].pc = "done"]
            /\ UNCHANGED callbacks
       ELSE /\ callbacks' = Append(callbacks, [providerId |-> p])
            /\ sessionCalls' = [sessionCalls EXCEPT
                                  ![c].pc = "createSession",
                                  ![c].callback = Len(callbacks) + 1]
    /\ authOutcome' = NoAuthOutcome
    /\ UNCHANGED <<loaderVars, rendererVars, moduleVars, handles, infoCall>>
    /\ UNCHANGED <<authenticationProviders, loginDialogRequests,
                   loginDialogQueue, requests, providerSessions, sent,
                   registration, notifications>>

\* A createCallback whose broadcast overtakes the ones already made.
LoginCallbackNewestFirst(cb, url) ==
    LET p == callbacks[cb].providerId
        r == Len(requests) + 1
    IN  /\ requests' = Append(requests,
              [callback |-> cb, providerId |-> p, closed |-> FALSE,
               closedAt |-> 0])
        /\ sent' = <<DisplayDialog(r, url, p)>> \o sent
        /\ loginDialogQueue' = Append(loginDialogQueue, r)
        /\ loginDialogRequests' = [loginDialogRequests EXCEPT ![p] = r]

\* The function createCallback returns, called by the provider with a url:
\* the executor of the scheduled promise runs at once (it broadcasts
\* 'display-authentication-dialog' and subscribes resolved to onDidClose),
\* the promise is chained on the queue, and the request is stored.
LoginCallback(cb, url) ==
    LET p == callbacks[cb].providerId
        r == Len(requests) + 1
    IN  /\ requests' = Append(requests,
              [callback |-> cb, providerId |-> p, closed |-> FALSE,
               closedAt |-> 0])
        /\ sent' = Append(sent, DisplayDialog(r, url, p))
        /\ loginDialogQueue' = Append(loginDialogQueue, r)
        /\ loginDialogRequests' = [loginDialogRequests EXCEPT ![p] = r]

ProviderCallsLogin(c, url) ==
    /\ c \in Indices(sessionCalls)
    /\ sessionCalls[c].pc = "createSession"
    /\ Len(requests) < MaxRequests
    /\ Len(sent) < MaxSent
    /\ LoginCallback(sessionCalls[c].callback, url)
    /\ authOutcome' = NoAuthOutcome
    /\ UNCHANGED <<loaderVars, rendererVars, moduleVars, handles, infoCall>>
    /\ UNCHANGED <<authenticationProviders, callbacks, sessionCalls,
                   providerSessions, registration, notifications>>

\* provider.createSession settles with a new session.
ProviderCreatesSession(c) ==
    /\ c \in Indices(sessionCalls)
    /\ sessionCalls[c].pc = "createSession"
    /\ sessionCalls' = [sessionCalls EXCEPT ![c].pc = "done"]
    /\ providerSessions' =
          [providerSessions EXCEPT ![sessionCalls[c].providerId] = c]
    /\ authOutcome' = NoAuthOutcome
    /\ UNCHANGED <<loaderVars, rendererVars, moduleVars, handles, infoCall>>
    /\ UNCHANGED <<authenticationProviders, loginDialogRequests,
                   loginDialogQueue, requests, callbacks, sent,
                   registration, notifications>>

\* loginRequest.dispose of request r: the map entry of r's provider is
\* deleted, 'close-authentication-dialog' is broadcast and the emitter of
\* r's callback fires, which calls every listener subscribed to it.
Fired(r, cb, at) ==
    IF requests[r].callback = cb /\ ~requests[r].closed
    THEN [requests[r] EXCEPT !.closed = TRUE, !.closedAt = at]
    ELSE requests[r]

Dispose(r) ==
    /\ loginDialogRequests' =
          [loginDialogRequests EXCEPT ![requests[r].providerId] = NoRequest]
    /\ sent' = Append(sent, CloseDialog)
    /\ requests' = [q \in Indices(requests) |->
                       Fired(q, requests[r].callback, Len(sent) + 1)]

\* loginDialogClosedByUser(providerId): callback?.dispose()
DisposeRequestOf(p) ==
    IF loginDialogRequests[p] # NoRequest
    THEN Dispose(loginDialogRequests[p])
    ELSE UNCHANGED <<loginDialogRequests, sent, requests>>

\* A loginDialogClosedByUser that leaves the request in the map.
LoginDialogClosedKeepsEntry(p) ==
    /\ Len(sent) < MaxSent
    /\ IF loginDialogRequests[p] # NoRequest
       THEN /\ sent' = Append(sent, CloseDialog)
            /\ requests' =
                  [q \in Indices(requests) |->
                      Fired(q, requests[loginDialogRequests[p]].callback,
                            Len(sent) + 1)]
       ELSE UNCHANGED <<sent, requests>>
    /\ authOutcome' =
          AuthOutcome("loginDialogClosedByUser", p, NoSession, "done", NoError)
    /\ UNCHANGED <<loaderVars, rendererVars, moduleVars, handles, infoCall>>
    /\ UNCHANGED <<authenticationProviders, loginDialogQueue, callbacks,
                   sessionCalls, providerSessions, registration,
                   notifications, loginDialogRequests>>

\* loginDialogClosedByUser(providerId), called by any renderer code
LoginDialogClosedByUser(p) ==
    /\ Len(sent) < MaxSent
    /\ DisposeRequestOf(p)
    /\ authOutcome' =
          AuthOutcome("loginDialogClosedByUser", p, NoSession, "done", NoError)
    /\ UNCHANGED <<loaderVars, rendererVars, moduleVars, handles, infoCall>>
    /\ UNCHANGED <<authenticationProviders, loginDialogQueue, callbacks,
                   sessionCalls, providerSessions, registration,
                   notifications>>

\* The provider disposes a dialog handle its login callback resolved to.
HandleDispose(r) ==
    /\ r \in Indices(requests)
    /\ Len(sent) < MaxSent
    /\ Dispose(r)
    /\ authOutcome' =
          [AuthOutcome("handleDispose", requests[r].providerId, NoSession, "done",
                       NoError) EXCEPT !.handle = r]
    /\ UNCHANGED <<loaderVars, rendererVars, moduleVars, handles, infoCall>>
    /\ UNCHANGED <<authenticationProviders, loginDialogQueue, callbacks,
                   sessionCalls, providerSessions, registration,
                   notifications>>

\* _loginDialogQueue.then(() => promise): the chain passes the promise at
\* its head once that promise is resolved.
QueueAdvance ==
    /\ loginDialogQueue # <<>>
    /\ requests[Head(loginDialogQueue)].closed
    /\ loginDialogQueue' = Tail(loginDialogQueue)
    /\ authOutcome' = NoAuthOutcome
    /\ UNCHANGED <<loaderVars, rendererVars, moduleVars, handles, infoCall>>
    /\ UNCHANGED <<authenticationProviders, loginDialogRequests, requests,
                   callbacks, sessionCalls, providerSessions, sent,
                   registration, notifications>>

\* A removeSession whose provider drops the session without an event.
RemoveSessionSilent(op, p, sid) ==
    /\ IF authenticationProviders[p] = NoProvider
       THEN /\ authOutcome' = AuthOutcome(op, p, sid, "failed",
                                 [kind |-> "notInstalled", id |-> p])
            /\ UNCHANGED <<providerSessions, notifications>>
       ELSE /\ providerSessions' =
                  [providerSessions EXCEPT ![p] = NoSession]
            /\ UNCHANGED notifications
            /\ authOutcome' = AuthOutcome(op, p, sid, "done", NoError)

\* A removeSession that returns without an error when the provider is not
\* registered.
RemoveSessionUnchecked(op, p, sid) ==
    /\ IF providerSessions[p] # NoSession
          /\ authenticationProviders[p] # NoProvider
       THEN /\ notifications' = Append(notifications,
                    [providerId |-> p, removed |-> providerSessions[p]])
            /\ providerSessions' =
                  [providerSessions EXCEPT ![p] = NoSession]
       ELSE UNCHANGED <<providerSessions, notifications>>
    /\ authOutcome' = AuthOutcome(op, p, sid, "done", NoError)

\* Whether the listener subscribed with handle h is still subscribed.
Listening(h) == handles[h].listening

\* The handle of the registration the map holds for p.
CurrentHandle(p) ==
    CHOOSE h \in Indices(handles) :
        /\ handles[h].id = p
        /\ \A g \in Indices(handles) : handles[g].id = p => g <= h

\* AuthenticationProviderSingleAccout.removeSession of the provider
\* registered with handle h: when it holds a session it fires one
\* session-change event with that session in removed, which the listener of
\* h answers with one broker event and one 'authentication-provider-update',
\* and forgets the session; o is what the caller gets, and the step is the
\* step of a provider event of h.
ProviderRemoveSession(h, o) ==
    LET p == handles[h].id IN
    IF providerSessions[p] # NoSession
    THEN /\ notifications' = Append(notifications,
                [providerId |-> p, removed |-> providerSessions[p]])
         /\ providerSessions' = [providerSessions EXCEPT ![p] = NoSession]
         /\ authOutcome' = [IF Listening(h) THEN Updated(o, TRUE) ELSE o
                               EXCEPT !.handle = h]
    ELSE /\ UNCHANGED <<providerSessions, notifications>>
         /\ authOutcome' = o

\* removeSession(providerId, sessionId): throws when the provider is not
\* registered, else calls provider.removeSession(sessionId).
RemoveSessionCall(op, p, sid) ==
    IF authenticationProviders[p] = NoProvider
    THEN /\ authOutcome' = AuthOutcome(op, p, sid, "failed",
                              [kind |-> "notInstalled", id |-> p])
         /\ UNCHANGED <<providerSessions, notifications>>
    ELSE ProviderRemoveSession(CurrentHandle(p),
                               AuthOutcome(op, p, sid, "done", NoError))

\* The extension that owns the provider of handle h calls removeSession on
\* it, not through the broker.
ProviderRemovesSession(h) ==
    /\ h \in Indices(handles)
    /\ ProviderRemoveSession(h,
          AuthOutcome("sessionChange", handles[h].id, NoSession, "done",
                      NoError))
    /\ UNCHANGED <<loaderVars, rendererVars, moduleVars, handles, infoCall>>
    /\ UNCHANGED <<authenticationProviders, loginDialogRequests,
                   loginDialogQueue, requests, callbacks, sessionCalls, sent,
                   registration>>

RemoveSession(p, sid) ==
    /\ RemoveSessionCall("removeSession", p, sid)
    /\ UNCHANGED <<loaderVars, rendererVars, moduleVars, handles, infoCall>>
    /\ UNCHANGED <<authenticationProviders, loginDialogRequests,
                   loginDialogQueue, requests, callbacks, sessionCalls, sent,
                   registration>>

\* signOut(providerId, sessionId) returns removeSession(providerId, sessionId)
SignOut(p, sid) ==
    /\ RemoveSessionCall("signOut", p, sid)
    /\ UNCHANGED <<loaderVars, rendererVars, moduleVars, handles, infoCall>>
    /\ UNCHANGED <<authenticationProviders, loginDialogRequests,
                   loginDialogQueue, requests, callbacks, sessionCalls, sent,
                   registration>>

(***************************************************************************)
(* The renderer's login dialog                                             *)
(***************************************************************************)
RendererInit ==
    /\ displayModal = FALSE
    /\ modalProviderId = NoProvider
    /\ received = 0

\* window.events.receive of the next message the broker sent:
\* 'display-authentication-dialog' shows the dialog for the provider of the
\* message, 'close-authentication-dialog' hides it.
Receive ==
    /\ received < Len(sent)
    /\ received' = received + 1
    /\ LET m == sent[received + 1] IN
       IF IsDisplay(m)
       THEN /\ displayModal' = TRUE
            /\ modalProviderId' = m.providerId
       ELSE /\ displayModal' = FALSE
            /\ UNCHANGED modalProviderId
    /\ UNCHANGED <<authVars, loaderVars, moduleVars>>

\* hideModal(), run when the user closes the dialog shown: the dialog is
\* hidden and loginDialogClosedByUser(providerId) is called on the broker.
HideModal ==
    /\ displayModal
    /\ displayModal' = FALSE
    /\ DisposeRequestOf(modalProviderId)
    /\ authOutcome' = NoAuthOutcome
    /\ UNCHANGED <<loaderVars, moduleVars, handles, infoCall, modalProviderId,
                   received>>
    /\ UNCHANGED <<authenticationProviders, loginDialogQueue, callbacks,
                   sessionCalls, providerSessions, registration,
                   notifications>>

\* The login dialogs: providers are registered, getSession is called with
\* default options, and the providers ask for dialogs.
NextAuth ==
    \/ \E p \in ProviderIds : RegisterAuthenticationProvider(p, "l1")
    \/ \E p \in ProviderIds : GetSession(p, "none")
    \/ \E c \in 1..MaxGetSession : GetSessionsReturn(c)
    \/ \E c \in 1..MaxGetSession, url \in Urls : ProviderCallsLogin(c, url)
    \/ \E c \in 1..MaxGetSession : ProviderCreatesSession(c)
    \/ \E p \in ProviderIds : LoginDialogClosedByUser(p)
    \/ \E r \in 1..MaxRequests : HandleDispose(r)
    \/ QueueAdvance

\* The login dialogs as the renderer shows them and the user closes them.
NextDialog ==
    \/ \E p \in ProviderIds : RegisterAuthenticationProvider(p, "l1")
    \/ \E p \in ProviderIds : GetSession(p, "none")
    \/ \E c \in 1..MaxGetSession : GetSessionsReturn(c)
    \/ \E c \in 1..MaxGetSession, url \in Urls : ProviderCallsLogin(c, url)
    \/ \E c \in 1..MaxGetSession : ProviderCreatesSession(c)
    \/ Receive
    \/ HideModal
    \/ QueueAdvance

\* The registrations and the sessions: every call of the broker but the
\* login callback and the provider list, with providers that create their
\* session without a dialog.
NextSession ==
    \/ \E p \in ProviderIds, l \in Labels : RegisterAuthenticationProvider(p, l)
    \/ \E h \in 1..MaxHandles : DisposeRegistration(h)
    \/ \E p \in ProviderIds, o \in Options : GetSession(p, o)
    \/ \E c \in 1..MaxGetSession : GetSessionsReturn(c)
    \/ \E c \in 1..MaxGetSession : ProviderCreatesSession(c)
    \/ \E p \in ProviderIds, sid \in SessionIds : RemoveSession(p, sid)
    \/ \E p \in ProviderIds, sid \in SessionIds : SignOut(p, sid)
    \/ \E h \in 1..MaxHandles : ProviderRemovesSession(h)
    \/ \E p \in ProviderIds, o \in Options : ApiGetSession(p, o)

\* The provider list: getAuthenticationProvidersInfo while providers are
\* registered and disposed and sessions are created.
NextInfo ==
    \/ \E p \in ProviderIds, l \in Labels : RegisterAuthenticationProvider(p, l)
    \/ \E h \in 1..MaxHandles : DisposeRegistration(h)
    \/ GetAuthenticationProvidersInfo
    \/ \E p \in ProviderIds : InfoQuerySettles(p)
    \/ InfoReturn
    \/ \E p \in ProviderIds : GetSession(p, "none")
    \/ \E c \in 1..MaxGetSession : GetSessionsReturn(c)
    \/ \E c \in 1..MaxGetSession : ProviderCreatesSession(c)

(***************************************************************************)
(* Extension loader                                                        *)
(***************************************************************************)
LoaderInit ==
    /\ analyzedExtensions = [i \in ExtIds |-> NoExtension]
    /\ activatedExtensions = [i \in ExtIds |-> NoAct]
    /\ overrideRequireDone = FALSE
    /\ configurations = {}
    /\ disk = Folders
    /\ extensionRemoved = 0
    /\ contexts = <<>>
    /\ calls = [c \in 1..MaxCalls |-> IdleCall]
    /\ outcome = NoOutcome
    /\ activation = [i \in ExtIds |-> NoAct]

\* A slot holds a call until the call has settled and no deactivateExtension
\* it started is still awaiting.
FreeCall(c) == calls[c].op = "idle"

HasFreeCall == \E c \in 1..MaxCalls : FreeCall(c)

NewCall ==
    CHOOSE c \in 1..MaxCalls :
        FreeCall(c) /\ \A d \in 1..(c - 1) : ~FreeCall(d)

Pending(kids) == \E i \in ExtIds : kids[i].pc = "deactivateFn"

\* What a call's promise settled to.
Outcome(op, status, error) ==
    [op |-> op, status |-> status, error |-> error]

\* The model follows at most MaxActs activations: a load takes one.
CanLoad ==
    Len(contexts)
      + Cardinality({c \in 1..MaxCalls : calls[c].pc = "loadManifest"})
      < MaxActs

LoaderState ==
    [contexts |-> contexts, activated |-> activatedExtensions,
     activation |-> activation]

SetLoaderState(st) ==
    /\ contexts' = st.contexts
    /\ activatedExtensions' = st.activated
    /\ activation' = st.activation

\* Call c has settled: its slot is free again, and when it is a
\* loadExtension of start() that rejected, the Promise.all start() awaits
\* takes the first such rejection.
Settled(c, status, error) ==
    [d \in 1..MaxCalls |->
        IF d = c THEN IdleCall
        ELSE IF /\ calls[c].op = "scanLoad"
                /\ status = "failed"
                /\ calls[d].op = "scan"
                /\ calls[d].pc \in {"builtin", "plugins"}
                /\ calls[d].error = NoError
             THEN [calls[d] EXCEPT !.error = error]
             ELSE calls[d]]

\* A loadExtension that throws when the folder has no package.json.
LoadBeginThrows(op, id, f, removable) ==
    /\ HasFreeCall
    /\ CanLoad
    /\ IF f \in disk /\ HasManifest(f)
       THEN /\ calls' = [calls EXCEPT ![NewCall] =
                  [IdleCall EXCEPT !.op = op, !.pc = "loadManifest",
                                   !.path = f, !.removable = removable]]
            /\ outcome' = NoOutcome
       ELSE /\ outcome' = Outcome(op, "failed",
                                  [kind |-> "manifest", id |-> ""])
            /\ UNCHANGED calls

\* loadExtension(extensionPath, removable) up to its first await, the read
\* of the manifest: nothing but a warning when the folder has no
\* package.json.
LoadBegin(op, id, f, removable) ==
    /\ HasFreeCall
    /\ CanLoad
    /\ IF f \in disk /\ HasManifest(f)
       THEN /\ calls' = [calls EXCEPT ![NewCall] =
                  [IdleCall EXCEPT !.op = op, !.pc = "loadManifest",
                                   !.path = f, !.removable = removable]]
            /\ outcome' = NoOutcome
       ELSE /\ outcome' = Outcome(op, "done", NoError)
            /\ UNCHANGED calls

\* loadExtension as start() and loadPackagedFile call it.
LoadExtension(f) ==
    /\ LoadBegin("load", "", f, InPluginsDirectory(f))
    /\ UNCHANGED <<authVars, rendererVars, moduleVars>>
    /\ UNCHANGED <<analyzedExtensions, activatedExtensions,
                   overrideRequireDone, configurations, disk,
                   extensionRemoved, contexts, activation>>

\* loadPackagedFile(filePath): the file is unpacked, then loadExtension is
\* called on the unpacked directory with removable = true; 'extension-started'
\* is sent when that call has settled without an error.
LoadPackagedFile ==
    /\ disk' = disk \cup {UnpackedDirectory}
    /\ HasFreeCall
    /\ CanLoad
    /\ calls' = [calls EXCEPT ![NewCall] =
          [IdleCall EXCEPT !.op = "packaged", !.pc = "loadManifest",
                           !.path = UnpackedDirectory, !.removable = TRUE]]
    /\ outcome' = NoOutcome
    /\ UNCHANGED <<authVars, rendererVars, moduleVars>>
    /\ UNCHANGED <<analyzedExtensions, activatedExtensions,
                   overrideRequireDone, configurations, extensionRemoved,
                   contexts, activation>>

\* A startExtension that reloads the bundle as a removable one.
StartExtensionAsRemovable(id) ==
    /\ IF analyzedExtensions[id] # NoExtension
       THEN LoadBegin("start", id, analyzedExtensions[id].path, TRUE)
       ELSE /\ outcome' = Outcome("start", "done", NoError)
            /\ UNCHANGED calls
    /\ UNCHANGED <<authVars, rendererVars, moduleVars>>
    /\ UNCHANGED <<analyzedExtensions, activatedExtensions,
                   overrideRequireDone, configurations, disk,
                   extensionRemoved, contexts, activation>>

\* startExtension(extensionId)
StartExtension(id) ==
    /\ IF analyzedExtensions[id] # NoExtension
       THEN LoadBegin("start", id, analyzedExtensions[id].path,
                      analyzedExtensions[id].removable)
       ELSE /\ outcome' = Outcome("start", "done", NoError)
            /\ UNCHANGED calls
    /\ UNCHANGED <<authVars, rendererVars, moduleVars>>
    /\ UNCHANGED <<analyzedExtensions, activatedExtensions,
                   overrideRequireDone, configurations, disk,
                   extensionRemoved, contexts, activation>>

\* activateExtension from "const id = extension.id" on: the
\* ActivatedExtension is stored.
MarkActivated(id, a) ==
    /\ activatedExtensions' = [activatedExtensions EXCEPT ![id] = a]
    /\ activation' = [activation EXCEPT ![id] = a]

\* An activateExtension that stores the ActivatedExtension whatever activate
\* settled to.
StoreAlways(ok, id, a) == MarkActivated(id, a)

\* activateExtension once the await of activate is over: a rejection leaves
\* the function there, else the ActivatedExtension is stored.
StoreIfActivated(ok, id, a) ==
    IF ok THEN MarkActivated(id, a)
    ELSE UNCHANGED <<activatedExtensions, activation>>

\* loadExtension after loadManifest settled, to the await of activate in
\* activateExtension (to its end when the runtime exports no activate).
LoadManifestSettle(c) ==
    /\ calls[c].pc = "loadManifest"
    /\ \E readable \in BOOLEAN,
          hasActivate \in ExportsActivate(calls[c].path),
          hasDeactivate \in ExportsDeactivate(calls[c].path) :
       LET f == calls[c].path
           id == ManifestName(f)
           a == Len(contexts) + 1
       IN  IF ~readable
           THEN /\ calls' = Settled(c, "failed",
                      [kind |-> "manifest", id |-> ManifestName(calls[c].path)])
                /\ outcome' = Outcome(calls[c].op, "failed",
                      [kind |-> "manifest", id |-> ManifestName(calls[c].path)])
                /\ UNCHANGED <<analyzedExtensions, activatedExtensions,
                               overrideRequireDone, configurations,
                               contexts, activation>>
           ELSE /\ f \in disk
                /\ overrideRequireDone' = TRUE
                /\ configurations' =
                      IF ManifestHasConfiguration(f)
                      THEN configurations \cup {id} ELSE configurations
                /\ analyzedExtensions' =
                      [analyzedExtensions EXCEPT ![id] =
                          [path |-> f, removable |-> calls[c].removable]]
                /\ contexts' = Append(contexts,
                      [id |-> id,
                       state |-> IF hasActivate THEN "activating"
                                 ELSE "active",
                       deactivateFunction |-> hasDeactivate,
                       subscriptions |-> <<>>,
                       removable |-> calls[c].removable])
                /\ IF hasActivate
                   THEN /\ calls' = [calls EXCEPT ![c].pc = "activate",
                                                  ![c].id = id,
                                                  ![c].act = a]
                        /\ outcome' = NoOutcome
                        /\ UNCHANGED <<activatedExtensions, activation>>
                   ELSE /\ calls' = Settled(c, "done", NoError)
                        /\ outcome' =
                              Outcome(calls[c].op, "done", NoError)
                        /\ MarkActivated(id, a)
    /\ UNCHANGED <<authVars, rendererVars, moduleVars>>
    /\ UNCHANGED <<disk, extensionRemoved>>

\* activateExtension after the extension's activate settled; the extension
\* has pushed n disposables on context.subscriptions by then.
ActivateSettle(c) ==
    /\ calls[c].pc = "activate"
    /\ \E ok \in BOOLEAN, n \in Pushes(calls[c].path) :
       LET a == calls[c].act
           id == calls[c].id
       IN  /\ contexts' = [contexts EXCEPT
                 ![a].subscriptions = [i \in 1..n |-> 0],
                 ![a].state = IF ok THEN "active" ELSE "failed"]
           /\ calls' = IF ok THEN Settled(c, "done", NoError)
                       ELSE Settled(c, "failed",
                                    [kind |-> "activate", id |-> id])
           /\ StoreIfActivated(ok, id, a)
           /\ outcome' = IF ok
                         THEN Outcome(calls[c].op, "done", NoError)
                         ELSE Outcome(calls[c].op, "failed",
                                      [kind |-> "activate", id |-> id])
    /\ UNCHANGED <<authVars, rendererVars, moduleVars>>
    /\ UNCHANGED <<analyzedExtensions, overrideRequireDone, configurations,
                   disk, extensionRemoved>>

\* deactivateExtension from "dispose subscriptions" on, for the record a it
\* read at its start: forEach calls dispose in order and stops at the one
\* that throws (thr, none when thr is no index); then the id is deleted.
DisposeAndDelete(st, id, a, thr) ==
    LET n == Len(st.contexts[a].subscriptions)
        throws == thr \in 1..n
        upTo == IF throws THEN thr ELSE n
        disposed == [st.contexts EXCEPT ![a].subscriptions =
                        [i \in 1..n |-> IF i <= upTo THEN @[i] + 1 ELSE @[i]]]
    IN  IF throws
        THEN [st |-> [st EXCEPT !.contexts = disposed],
              kid |-> [pc |-> "failed", act |-> NoAct,
                       error |-> [kind |-> "dispose", id |-> id]]]
        ELSE [st |-> [contexts |-> disposed,
                      activated |-> [st.activated EXCEPT ![id] = NoAct],
                      activation |-> [st.activation EXCEPT ![id] =
                                         IF @ = a THEN NoAct ELSE @]],
              kid |-> [pc |-> "done", act |-> NoAct, error |-> NoError]]

\* deactivateExtension(id) up to its first await (to its end when the
\* record has no deactivateFunction).
BeginDeactivate(st, id, thr) ==
    LET a == st.activated[id] IN
    IF a = NoAct
    THEN [st |-> st, kid |-> [pc |-> "done", act |-> NoAct, error |-> NoError]]
    ELSE IF st.contexts[a].deactivateFunction
         THEN [st |-> st,
               kid |-> [pc |-> "deactivateFn", act |-> a, error |-> NoError]]
         ELSE DisposeAndDelete(st, id, a, thr)

\* The model follows at most MaxDisposals calls of one disposable's dispose.
CanDispose(a) ==
    \A i \in 1..Len(contexts[a].subscriptions) :
        contexts[a].subscriptions[i] < MaxDisposals

\* Which dispose of the forEach over record a may throw: none (0) or the
\* one at an index of its subscriptions.
Throwing(a) == 0..Len(contexts[a].subscriptions)

\* The same for a deactivateExtension(id) that is about to begin: it reaches
\* the forEach in its first run only when the record has no deactivateFunction.
ThrowingAtBegin(id) ==
    IF activatedExtensions[id] = NoAct THEN {0}
    ELSE IF contexts[activatedExtensions[id]].deactivateFunction THEN {0}
    ELSE Throwing(activatedExtensions[id])

CanDeactivate(id) ==
    IF activatedExtensions[id] = NoAct THEN TRUE
    ELSE CanDispose(activatedExtensions[id])

\* deactivateExtension(extensionId), called on its own.
DeactivateExtension(id) ==
    /\ HasFreeCall
    /\ CanDeactivate(id)
    /\ \E thr \in ThrowingAtBegin(id) :
       LET r == BeginDeactivate(LoaderState, id, thr) IN
       /\ SetLoaderState(r.st)
       /\ IF r.kid.pc = "deactivateFn"
          THEN /\ calls' = [calls EXCEPT ![NewCall] =
                     [IdleCall EXCEPT !.op = "deactivate",
                                      !.pc = "deactivating", !.id = id,
                                      !.kids = [NoKids EXCEPT ![id] = r.kid]]]
               /\ outcome' = NoOutcome
          ELSE /\ outcome' =
                     Outcome("deactivate", r.kid.pc, r.kid.error)
               /\ UNCHANGED calls
    /\ UNCHANGED <<authVars, rendererVars, moduleVars>>
    /\ UNCHANGED <<analyzedExtensions, overrideRequireDone, configurations,
                   disk, extensionRemoved>>

\* What becomes of call c when its deactivateExtension(id) ends as kid.
AfterKid(c, id, kid) ==
    LET kids == [calls[c].kids EXCEPT ![id] = kid] IN
    IF calls[c].op = "deactivate"
       \/ (calls[c].op = "stopAll" /\ calls[c].pc = "failed"
           /\ ~Pending(kids))
    THEN IdleCall
    ELSE [calls[c] EXCEPT !.kids = kids]

\* A deactivateExtension(id) of call c resumes after the extension's
\* deactivate settled: a rejection ends it, else it disposes and deletes.
DeactivateFnSettle(c, id) ==
    /\ calls[c].kids[id].pc = "deactivateFn"
    /\ \E ok \in BOOLEAN, thr \in Throwing(calls[c].kids[id].act) :
       LET a == calls[c].kids[id].act
           r == IF ok
                THEN DisposeAndDelete(LoaderState, id, a, thr)
                ELSE [st |-> LoaderState,
                      kid |-> [pc |-> "failed", act |-> NoAct,
                               error |-> [kind |-> "deactivate", id |-> id]]]
       IN  /\ IF ok THEN CanDispose(a) ELSE thr = 0
           /\ SetLoaderState(r.st)
           /\ calls' = [calls EXCEPT ![c] = AfterKid(c, id, r.kid)]
           /\ outcome' = IF calls[c].op = "deactivate"
                         THEN Outcome("deactivate", r.kid.pc, r.kid.error)
                         ELSE NoOutcome
    /\ UNCHANGED <<authVars, rendererVars, moduleVars>>
    /\ UNCHANGED <<analyzedExtensions, overrideRequireDone, configurations,
                   disk, extensionRemoved>>

\* The map over activatedExtensions.keys() in stopAllExtensions: every
\* deactivateExtension runs to its first await, one after the other.
RECURSIVE BeginAll(_, _, _)
BeginAll(st, ids, thr) ==
    IF ids = {}
    THEN [st |-> st, kids |-> NoKids]
    ELSE LET i == CHOOSE x \in ids : TRUE
             r == BeginDeactivate(st, i, thr[i])
             rest == BeginAll(r.st, ids \ {i}, thr)
         IN  [st |-> rest.st, kids |-> [rest.kids EXCEPT ![i] = r.kid]]

\* stopAllExtensions() up to the await of Promise.all
StopAllExtensions ==
    /\ HasFreeCall
    /\ LET keys == {i \in ExtIds : activatedExtensions[i] # NoAct} IN
       /\ \A i \in keys : CanDeactivate(i)
       /\ \E thr \in {t \in [ExtIds -> 0..MaxSubs] :
                         \A i \in ExtIds : t[i] \in ThrowingAtBegin(i)} :
          LET r == BeginAll(LoaderState, keys, thr) IN
          /\ SetLoaderState(r.st)
          /\ calls' = [calls EXCEPT ![NewCall] =
                [IdleCall EXCEPT !.op = "stopAll", !.pc = "all",
                                 !.kids = r.kids]]
    /\ UNCHANGED <<authVars, rendererVars, moduleVars>>
    /\ UNCHANGED <<analyzedExtensions, overrideRequireDone, configurations,
                   disk, extensionRemoved>>
    /\ outcome' = NoOutcome

\* Promise.all: rejected as soon as one of the promises has rejected,
\* fulfilled once all have fulfilled.
PromiseAll(kids) ==
    IF \E i \in ExtIds : kids[i].pc = "failed" THEN "failed"
    ELSE IF Pending(kids) THEN "pending"
    ELSE "done"

\* stopAllExtensions after Promise.all settled
StopAllSettle(c) ==
    /\ calls[c].op = "stopAll"
    /\ calls[c].pc = "all"
    /\ PromiseAll(calls[c].kids) # "pending"
    /\ \E i \in ExtIds :
       LET all == PromiseAll(calls[c].kids) IN
       /\ IF all = "failed" THEN calls[c].kids[i].pc = "failed"
          ELSE i = CHOOSE x \in ExtIds : TRUE
       /\ outcome' = Outcome("stopAll", all,
                        IF all = "failed" THEN calls[c].kids[i].error
                        ELSE NoError)
       /\ calls' = [calls EXCEPT ![c] =
             IF Pending(calls[c].kids) THEN [@ EXCEPT !.pc = "failed"]
             ELSE IdleCall]
    /\ UNCHANGED <<authVars, rendererVars, moduleVars>>
    /\ UNCHANGED <<analyzedExtensions, activatedExtensions,
                   overrideRequireDone, configurations, disk,
                   extensionRemoved, contexts, activation>>

\* removeExtension(extensionId) up to the await of deactivateExtension
RemoveExtension(id) ==
    /\ IF analyzedExtensions[id] = NoExtension
       THEN /\ outcome' = Outcome("remove", "done", NoError)
            /\ UNCHANGED <<calls, contexts, activatedExtensions, activation>>
       ELSE /\ HasFreeCall
            /\ CanDeactivate(id)
            /\ \E thr \in ThrowingAtBegin(id) :
               LET r == BeginDeactivate(LoaderState, id, thr) IN
               /\ SetLoaderState(r.st)
               /\ calls' = [calls EXCEPT ![NewCall] =
                     [IdleCall EXCEPT
                         !.op = "remove", !.pc = "deactivating", !.id = id,
                         !.act = activatedExtensions[id],
                         !.path = analyzedExtensions[id].path,
                         !.removable = analyzedExtensions[id].removable,
                         !.kids = [NoKids EXCEPT ![id] = r.kid]]]
            /\ outcome' = NoOutcome
    /\ UNCHANGED <<authVars, rendererVars, moduleVars>>
    /\ UNCHANGED <<analyzedExtensions, overrideRequireDone, configurations,
                   disk, extensionRemoved>>

\* removeExtension after deactivateExtension settled: fs.promises.rm is
\* started for a removable extension, an Error is thrown for any other.
RemoveAfterDeactivate(c) ==
    /\ calls[c].op = "remove"
    /\ calls[c].pc = "deactivating"
    /\ LET kid == calls[c].kids[calls[c].id] IN
       /\ kid.pc \in {"done", "failed"}
       /\ IF kid.pc = "failed"
          THEN /\ calls' = [calls EXCEPT ![c] = IdleCall]
               /\ outcome' =
                     Outcome("remove", "failed", kid.error)
          ELSE IF calls[c].removable
          THEN /\ calls' = [calls EXCEPT ![c].pc = "rm"]
               /\ outcome' = NoOutcome
          ELSE /\ calls' = [calls EXCEPT ![c] = IdleCall]
               /\ outcome' =
                     Outcome("remove", "failed",
                             [kind |-> "notRemovable", id |-> calls[c].id])
    /\ UNCHANGED <<authVars, rendererVars, moduleVars>>
    /\ UNCHANGED <<analyzedExtensions, activatedExtensions,
                   overrideRequireDone, configurations, disk,
                   extensionRemoved, contexts, activation>>

\* fs.promises.rm(extension.path, {recursive, force}) deletes the bundle.
RmDeletes(c) ==
    /\ calls[c].op = "remove"
    /\ calls[c].pc = "rm"
    /\ disk' = disk \ {calls[c].path}
    /\ calls' = [calls EXCEPT ![c].pc = "rmDone"]
    /\ UNCHANGED <<authVars, rendererVars, moduleVars>>
    /\ UNCHANGED <<analyzedExtensions, activatedExtensions,
                   overrideRequireDone, configurations, extensionRemoved,
                   contexts, activation>>
    /\ outcome' = NoOutcome

\* A removeExtension that sends 'extension-removed' but leaves the id in the
\* analyzed map.
RemoveFinishKeepsAnalyzed(c) ==
    /\ calls[c].op = "remove"
    /\ calls[c].pc = "rmDone"
    /\ extensionRemoved' = extensionRemoved + 1
    /\ calls' = [calls EXCEPT ![c] = IdleCall]
    /\ outcome' = Outcome("remove", "done", NoError)
    /\ UNCHANGED <<authVars, rendererVars, moduleVars>>
    /\ UNCHANGED <<activatedExtensions, overrideRequireDone, configurations,
                   disk, contexts, activation, analyzedExtensions>>

\* removeExtension after rm settled
RemoveFinish(c) ==
    /\ calls[c].op = "remove"
    /\ calls[c].pc = "rmDone"
    /\ analyzedExtensions' =
          [analyzedExtensions EXCEPT ![calls[c].id] = NoExtension]
    /\ extensionRemoved' = extensionRemoved + 1
    /\ calls' = [calls EXCEPT ![c] = IdleCall]
    /\ outcome' = Outcome("remove", "done", NoError)
    /\ UNCHANGED <<authVars, rendererVars, moduleVars>>
    /\ UNCHANGED <<activatedExtensions, overrideRequireDone, configurations,
                   disk, contexts, activation>>

\* The folders of fs whose loadExtension gets past the check for
\* package.json.
Loadable(fs) == {f \in fs : f \in disk /\ HasManifest(f)}

\* folders.map(folder => this.loadExtension(folder, removable)): every
\* loadExtension runs to its await of loadManifest, one after the other.
RECURSIVE BeginLoads(_, _, _)
BeginLoads(cs, fs, removable) ==
    IF fs = {}
    THEN cs
    ELSE LET f == CHOOSE x \in fs : TRUE
             c == CHOOSE d \in 1..MaxCalls :
                     /\ cs[d].op = "idle"
                     /\ \A e \in 1..(d - 1) : cs[e].op # "idle"
         IN  BeginLoads([cs EXCEPT ![c] =
                            [IdleCall EXCEPT !.op = "scanLoad",
                                             !.pc = "loadManifest",
                                             !.path = f,
                                             !.removable = removable]],
                        fs \ {f}, removable)

\* Whether the model can follow the loads of fs next to the calls in flight.
CanBeginLoads(fs) ==
    /\ Cardinality(Loadable(fs))
          <= Cardinality({c \in 1..MaxCalls : FreeCall(c)})
    /\ Len(contexts)
          + Cardinality({c \in 1..MaxCalls : calls[c].pc = "loadManifest"})
          + Cardinality(Loadable(fs)) <= MaxActs

\* start(), called once when the application starts, up to its await of
\* readDevelopmentFolders / readProductionFolders.
Start ==
    /\ \A c \in 1..MaxCalls : FreeCall(c)
    /\ contexts = <<>>
    /\ calls' = [calls EXCEPT ![NewCall] =
          [IdleCall EXCEPT !.op = "scan", !.pc = "readFolders"]]
    /\ outcome' = NoOutcome
    /\ UNCHANGED <<authVars, rendererVars, moduleVars>>
    /\ UNCHANGED <<analyzedExtensions, activatedExtensions,
                   overrideRequireDone, configurations, disk,
                   extensionRemoved, contexts, activation>>

\* The loadExtension calls of start() that have not settled.
ScanLoads == {d \in 1..MaxCalls : calls[d].op = "scanLoad"}

\* start() resumes: after the built-in folders were read it starts their
\* loadExtension(folder, false) and awaits Promise.all of them; once that is
\* fulfilled it reads the plugins directory, starts loadExtension(folder,
\* true) for its folders and awaits Promise.all of those. A rejected
\* Promise.all is not caught: start() rejects there.
StartContinue(c) ==
    /\ calls[c].op = "scan"
    /\ IF calls[c].pc \in {"readFolders", "readPlugins"}
       THEN LET fs == IF calls[c].pc = "readFolders"
                      THEN BuiltinFolders ELSE PluginFolders
            IN  /\ CanBeginLoads(fs)
                /\ calls' = BeginLoads(
                      [calls EXCEPT ![c].pc =
                          IF calls[c].pc = "readFolders"
                          THEN "builtin" ELSE "plugins"],
                      Loadable(fs), calls[c].pc = "readPlugins")
                /\ outcome' = NoOutcome
       ELSE IF calls[c].error # NoError
       THEN /\ calls' = [calls EXCEPT ![c] = IdleCall]
            /\ outcome' = Outcome("scan", "failed", calls[c].error)
       ELSE /\ ScanLoads = {}
            /\ IF calls[c].pc = "builtin"
               THEN /\ calls' = [calls EXCEPT ![c].pc = "readPlugins"]
                    /\ outcome' = NoOutcome
               ELSE /\ calls' = [calls EXCEPT ![c] = IdleCall]
                    /\ outcome' = Outcome("scan", "done", NoError)
    /\ UNCHANGED <<authVars, rendererVars, moduleVars>>
    /\ UNCHANGED <<analyzedExtensions, activatedExtensions,
                   overrideRequireDone, configurations, disk,
                   extensionRemoved, contexts, activation>>

NextLoader ==
    \/ Start
    \/ \E c \in 1..MaxCalls : StartContinue(c)
    \/ \E f \in Folders : LoadExtension(f)
    \/ \E id \in ExtIds : StartExtension(id)
    \/ \E c \in 1..MaxCalls : LoadManifestSettle(c)
    \/ \E c \in 1..MaxCalls : ActivateSettle(c)
    \/ \E id \in ExtIds : DeactivateExtension(id)
    \/ \E c \in 1..MaxCalls, id \in ExtIds : DeactivateFnSettle(c, id)
    \/ StopAllExtensions
    \/ \E c \in 1..MaxCalls : StopAllSettle(c)
    \/ \E id \in ExtIds : RemoveExtension(id)
    \/ \E c \in 1..MaxCalls : RemoveAfterDeactivate(c)
    \/ \E c \in 1..MaxCalls : RmDeletes(c)
    \/ \E c \in 1..MaxCalls : RemoveFinish(c)

\* The loader with packaged extensions: bundles are loaded from their
\* folders and from packaged files, and extensions are removed.
NextPackaged ==
    \/ LoadPackagedFile
    \/ \E f \in Folders : LoadExtension(f)
    \/ \E c \in 1..MaxCalls : LoadManifestSettle(c)
    \/ \E c \in 1..MaxCalls : ActivateSettle(c)
    \/ \E id \in ExtIds : RemoveExtension(id)
    \/ \E c \in 1..MaxCalls, id \in ExtIds : DeactivateFnSettle(c, id)
    \/ \E c \in 1..MaxCalls : RemoveAfterDeactivate(c)
    \/ \E c \in 1..MaxCalls : RmDeletes(c)
    \/ \E c \in 1..MaxCalls : RemoveFinish(c)

(***************************************************************************)
(* Module loading                                                          *)
(***************************************************************************)
NoModuleEvent ==
    [op |-> "none", folder |-> "", load |-> 0, request |-> "",
     parent |-> <<>>, status |-> "none", api |-> "", detached |-> {}]

CacheInit ==
    /\ moduleCache = [k \in ModuleKeys |->
                         IF k = HostModule THEN 1 ELSE NotCached]
    /\ moduleChildren = [k \in ModuleKeys |-> {}]
    /\ moduleExports = {HostModule}
    /\ loads = 1
    /\ moduleEvent = NoModuleEvent

\* s.startsWith(prefix)
StartsWith(s, prefix) ==
    /\ Len(prefix) <= Len(s)
    /\ SubSeq(s, 1, Len(prefix)) = prefix

\* id.endsWith('.node')
IsNative(k) == k[Len(k)] = "n"

\* An eviction that does not skip the native modules.
EvictNativeToo(cache, extensionPathFolder) ==
    [k \in ModuleKeys |->
        IF /\ cache[k] # NotCached
           /\ StartsWith(k, extensionPathFolder)
        THEN NotCached
        ELSE cache[k]]

\* The forEach of loadRuntime over the keys of require.cache: a native
\* module is skipped, and the entry of a key that starts with
\* extensionPathFolder is deleted.
Evict(cache, extensionPathFolder) ==
    [k \in ModuleKeys |->
        IF /\ cache[k] # NotCached
           /\ ~IsNative(k)
           /\ StartsWith(k, extensionPathFolder)
        THEN NotCached
        ELSE cache[k]]

\* require(k) in load n: a cached module is served from the cache, else its
\* top-level code runs, which requires the modules of Requires(k) in turn
\* (these require none).
Require(cache, k, n) ==
    IF cache[k] # NotCached THEN cache
    ELSE [d \in ModuleKeys |->
             IF d = k \/ (d \in Requires(k) /\ cache[d] = NotCached)
             THEN n ELSE cache[d]]

\* Array.from(analyzed.values()).find(extension =>
\*     parent.filename.startsWith(extension.path)): the index of the first
\* one, 0 when there is none.
FindIn(analyzed, parent) ==
    LET found == {i \in DOMAIN analyzed :
                     StartsWith(parent, Root(analyzed[i]))}
    IN  IF found = {} THEN 0
        ELSE CHOOSE i \in found : \A j \in found : i <= j

Find(parent) == FindIn(registry, parent)

\* The children the forEach of loadRuntime cleans: those of a cached module
\* that is not native whose id starts with extensionPathFolder and that are
\* not native.
Cleaned(extensionPathFolder) ==
    {c \in ModuleKeys :
        /\ ~IsNative(c)
        /\ StartsWith(c, extensionPathFolder)
        /\ \E m \in ModuleKeys :
              /\ moduleCache[m] # NotCached
              /\ ~IsNative(m)
              /\ c \in moduleChildren[m]}

\* The children lists after the forEach: a cleaned child is spliced out of
\* the list of its parent, and every entry of its own list is deleted.
CleanChildren(extensionPathFolder) ==
    [m \in ModuleKeys |->
        IF m \in Cleaned(extensionPathFolder) THEN {}
        ELSE IF moduleCache[m] # NotCached /\ ~IsNative(m)
             THEN moduleChildren[m] \ Cleaned(extensionPathFolder)
             ELSE moduleChildren[m]]

\* The native modules the forEach takes out of a children list.
Detached(extensionPathFolder) ==
    {k \in ModuleKeys :
        /\ IsNative(k)
        /\ \E m \in ModuleKeys :
              /\ k \in moduleChildren[m]
              /\ k \notin CleanChildren(extensionPathFolder)[m]}

\* loadRuntime(extensionPathFolder) for the bundle of folder f, as load n:
\* the forEach cleans the cache, then require(extensionPathFolder), called
\* by the host module, runs the top-level code of the entry module e, which
\* asks for the capability API and requires the modules of Requires(e).
CleanAndRequire(f, extensionPathFolder, n, analyzed) ==
    LET e == Main(f)
        cache1 == Evict(moduleCache, extensionPathFolder)
        cache2 == Require(cache1, e, n)
        run == {k \in ModuleKeys :
                   cache1[k] = NotCached /\ cache2[k] # NotCached}
    IN  /\ moduleCache' = cache2
        /\ moduleChildren' =
              [m \in ModuleKeys |->
                  IF m = HostModule
                  THEN CleanChildren(extensionPathFolder)[m] \cup {e}
                  ELSE IF m = e /\ e \in run THEN Requires(e)
                  ELSE IF cache1[m] = NotCached THEN {}
                  ELSE CleanChildren(extensionPathFolder)[m]]
        /\ moduleExports' =
              {k \in ModuleKeys :
                  \/ k \in run
                  \/ /\ k \in moduleExports \ Cleaned(extensionPathFolder)
                     /\ cache1[k] # NotCached}
        /\ moduleEvent' =
              [NoModuleEvent EXCEPT
                  !.op = "loadRuntime", !.folder = f, !.load = n,
                  !.request = ApiName, !.parent = e,
                  !.status = IF FindIn(analyzed, e) = 0 THEN "failed"
                             ELSE "api",
                  !.api = IF FindIn(analyzed, e) = 0 THEN ""
                          ELSE analyzed[FindIn(analyzed, e)],
                  !.detached = Detached(extensionPathFolder)]

\* A loadRuntime that cleans the cache of everything under the root folder
\* of the bundle.
LoadRuntimeCleansRoot(f) ==
    /\ loads < MaxLoads
    /\ loads' = loads + 1
    /\ CleanAndRequire(f, Root(f), loads + 1, registry')

\* loadRuntime(extension.mainPath), as loadExtension calls it for the bundle
\* of folder f.
LoadRuntime(f) ==
    /\ loads < MaxLoads
    /\ loads' = loads + 1
    /\ CleanAndRequire(f, Main(f), loads + 1, registry')

\* overrideRequire()
OverrideRequire == overrideRequireDone' = TRUE

\* analyzedExtensions.set(extension.id, extension) for the bundle of folder
\* f: a key the map has keeps its place, a new one comes last.
AnalyzedSet(f) ==
    IF \E i \in DOMAIN registry : registry[i] = f THEN registry
    ELSE Append(registry, f)

\* loadExtension of the bundle of folder f, from overrideRequire() to the
\* return of loadRuntime: the override is installed, the extension with its
\* API is stored in the analyzed map and the runtime is loaded; the
\* top-level code of the entry module asks for the capability API, which
\* module._load answers from the map.
LoadExtensionRuntime(f) ==
    /\ OverrideRequire
    /\ registry' = AnalyzedSet(f)
    /\ LoadRuntime(f)
    /\ UNCHANGED <<authVars, rendererVars>>
    /\ UNCHANGED <<analyzedExtensions, activatedExtensions, configurations,
                   disk, extensionRemoved, contexts, calls, outcome,
                   activation>>

\* module._load(request, parent) for a module of the cache: before
\* overrideRequire, and for every other request after it, Node's own _load
\* answers; the capability API is the one of the extension found, and the
\* load throws when none is found.
ModuleLoad(request, parent) ==
    /\ moduleCache[parent] # NotCached
    /\ moduleEvent' =
          [NoModuleEvent EXCEPT
              !.op = "load", !.request = request, !.parent = parent,
              !.status = IF ~overrideRequireDone \/ request # ApiName
                         THEN "internalLoad"
                         ELSE IF Find(parent) = 0 THEN "failed" ELSE "api",
              !.api = IF overrideRequireDone /\ request = ApiName
                         /\ Find(parent) # 0
                      THEN registry[Find(parent)] ELSE ""]
    /\ UNCHANGED <<authVars, loaderVars, rendererVars, moduleCache,
                   moduleChildren, moduleExports, registry, loads>>

\* Module loading on its own: bundles are loaded and reloaded and their
\* modules ask for modules, whatever extensions are analyzed.
NextModules ==
    \/ \E f \in Bundles : LoadExtensionRuntime(f)
    \/ \E request \in Requests, parent \in ModuleKeys :
          ModuleLoad(request, parent)

Init ==
    AuthInit /\ LoaderInit /\ RendererInit /\ CacheInit /\ registry = <<>>

\* The orders in which bundles can be in the analyzed map.
Registries ==
    {r \in UNION {[1..n -> Bundles] : n \in 0..Cardinality(Bundles)} :
        \A i \in DOMAIN r, j \in DOMAIN r : r[i] = r[j] => i = j}

InitModules ==
    AuthInit /\ LoaderInit /\ RendererInit /\ CacheInit
        /\ registry \in Registries

SpecAuth == Init /\ [][NextAuth]_vars

SpecSession == Init /\ [][NextSession]_vars

\* The login dialogs with their user: every message sent reaches the
\* renderer, the user closes the dialog whenever one is shown, and a
\* continuation that can run does run.
SpecDialog ==
    /\ Init
    /\ [][NextDialog]_vars
    /\ WF_vars(Receive)
    /\ WF_vars(HideModal)
    /\ WF_vars(QueueAdvance)
    /\ \A c \in 1..MaxGetSession : WF_vars(GetSessionsReturn(c))

SpecInfo == Init /\ [][NextInfo]_vars

SpecLoader == Init /\ [][NextLoader]_vars

SpecModules == InitModules /\ [][NextModules]_vars

SpecPackaged == Init /\ [][NextPackaged]_vars

(***************************************************************************)
(* Properties of the authentication broker                                 *)
(***************************************************************************)
Displays == SelectSeq(sent, IsDisplay)

InFlight(p) ==
    {r \in Indices(requests) :
        requests[r].providerId = p /\ ~requests[r].closed}

\* C1: login dialogs are presented one at a time: between the
\* 'display-authentication-dialog' broadcast of one login request and the
\* broadcast of any later one, the close notification of the first has fired.
C1_OneDialogAtATime ==
    \A i \in Indices(sent) : \A j \in Indices(sent) :
        (i < j /\ IsDisplay(sent[i]) /\ IsDisplay(sent[j]))
            => /\ requests[sent[i].request].closed
               /\ requests[sent[i].request].closedAt < j

\* C2: 'display-authentication-dialog' broadcasts are issued in exactly the
\* order in which the login callbacks were invoked: the k-th broadcast is the
\* one of the k-th invocation, for its provider.
C2_DisplaysInInvocationOrder ==
    /\ Len(Displays) = Len(requests)
    /\ \A k \in Indices(Displays) :
          /\ Displays[k].request = k
          /\ Displays[k].providerId = requests[k].providerId

\* Three login callbacks were invoked, for both providers, while the dialog
\* of the first was still open.
C2_Witness ==
    /\ Len(requests) = 3
    /\ {requests[r].providerId : r \in Indices(requests)} = ProviderIds
    /\ ~requests[1].closed

\* C3: for every provider id at most one login dialog request object is
\* created and not yet closed.
C3_OneInFlightRequestPerProvider ==
    \A p \in ProviderIds : Cardinality(InFlight(p)) <= 1

(***************************************************************************)
(* Properties of the extension loader                                      *)
(***************************************************************************)
Released(a) == contexts[a].subscriptions

\* C4: an extension id is in the activated map if and only if its
\* activation has run to successful completion and it has not been
\* deactivated since.
C4_ActivatedIffActivation ==
    \A id \in ExtIds :
        (activatedExtensions[id] # NoAct) <=> (activation[id] # NoAct)

\* C5: every disposable of a context is released exactly once by the
\* deactivation of its extension: none is released twice, and none is left
\* out once another one of the same context has been released.
C5_ReleasedExactlyOnce ==
    \A a \in Indices(contexts) : \A i \in Indices(Released(a)) :
        /\ Released(a)[i] <= 1
        /\ \A j \in Indices(Released(a)) : Released(a)[j] = Released(a)[i]

\* C6: when a dispose fails during deactivateExtension, dispose has been
\* attempted on every subscription of the context and the id has been
\* removed from the activated map.
C6_DisposeFailureTolerated ==
    (outcome.op = "deactivate" /\ outcome.error.kind = "dispose")
        => /\ activatedExtensions[outcome.error.id] = NoAct
           /\ \A a \in Indices(contexts) :
                 (contexts[a].id = outcome.error.id
                  /\ \E i \in Indices(Released(a)) : Released(a)[i] > 0)
                     => \A i \in Indices(Released(a)) : Released(a)[i] > 0

\* C7: once stopAllExtensions has settled, every extension whose own
\* deactivation did not fail has been removed from the activated map: none
\* of the deactivations it started is still awaiting with its id in the map.
C7_StopAllJoinsAll ==
    \A c \in 1..MaxCalls : \A i \in ExtIds :
        (calls[c].op = "stopAll" /\ calls[c].pc = "failed"
         /\ calls[c].kids[i].pc = "deactivateFn")
            => activatedExtensions[i] = NoAct

\* C8: the activated map only holds records whose activate has settled
\* successfully; when activate throws or rejects, the record is not stored
\* and the load fails with the error of that extension's activate.
C8_ActivatedOnlyAfterActivate ==
    [][/\ \A id \in ExtIds :
            activatedExtensions'[id] # NoAct
                => contexts'[activatedExtensions'[id]].state = "active"
       /\ \A a \in Indices(contexts) :
            (contexts[a].state = "activating" /\ contexts'[a].state = "failed")
                => /\ outcome'.op \in {"load", "scanLoad", "start"}
                   /\ outcome'.status = "failed"
                   /\ outcome'.error =
                         [kind |-> "activate", id |-> contexts[a].id]
                   /\ activatedExtensions' = activatedExtensions]_vars

\* The activate of a hot reload has just rejected while another extension
\* is activated.
C8_Witness ==
    /\ outcome.status = "failed"
    /\ outcome.error.kind = "activate"
    /\ \E a \in Indices(contexts), b \in Indices(contexts) :
          /\ contexts[a].state = "failed"
          /\ contexts[a].id = outcome.error.id
          /\ activatedExtensions[contexts[a].id] = NoAct
          /\ activatedExtensions[contexts[b].id] = b

\* C9: when activate has thrown during loadExtension, the analyzed entry
\* and the configuration of that extension are not registered and none of
\* the disposables it pushed remains unreleased.
C9_NoPartialStateAfterFailedActivate ==
    (outcome.status = "failed" /\ outcome.error.kind = "activate")
        => /\ analyzedExtensions[outcome.error.id] = NoExtension
           /\ outcome.error.id \notin configurations
           /\ \A a \in Indices(contexts) :
                 (contexts[a].id = outcome.error.id
                  /\ contexts[a].state = "failed")
                     => \A i \in Indices(Released(a)) : Released(a)[i] > 0

\* C10: a removeExtension of an analyzed extension that is not removable
\* fails with the error naming that id; the extension stays analyzed, its
\* bundle stays on disk and no 'extension-removed' is sent.
C10_NotRemovableFailsNamingId ==
    [][\A c \in 1..MaxCalls :
          (calls[c].op = "remove" /\ ~calls[c].removable
           /\ calls'[c].op = "idle")
              => /\ outcome' = Outcome("remove", "failed",
                                [kind |-> "notRemovable", id |-> calls[c].id])
                 /\ analyzedExtensions'[calls[c].id] # NoExtension
                 /\ disk' = disk
                 /\ extensionRemoved' = extensionRemoved]_vars

\* C11: a removeExtension(id) called while id is not in the analyzed
\* registry fails: with no extension analyzed and no removeExtension in
\* flight, a removeExtension that settles has been rejected.
C11_RemoveOfUnknownFails ==
    [][((\A id \in ExtIds : analyzedExtensions[id] = NoExtension)
        /\ (\A c \in 1..MaxCalls : calls[c].op # "remove")
        /\ outcome'.op = "remove")
            => outcome'.status = "failed"]_vars

\* C13: a loadExtension that ends at the check for package.json (it settles
\* without having awaited anything) does not throw, and it leaves the
\* analyzed registry, the activated map, the contexts and the registered
\* configurations as they were.
C13_LoadWithoutManifestIsNoOp ==
    [][(outcome'.op = "load" /\ calls' = calls)
            => /\ outcome'.status = "done"
               /\ UNCHANGED <<analyzedExtensions, activatedExtensions,
                              contexts, configurations, activation,
                              overrideRequireDone>>]_vars

\* loadExtension of the folder without package.json has just returned and
\* nothing is analyzed or activated.
C13_Witness ==
    /\ outcome = Outcome("load", "done", NoError)
    /\ contexts = <<>>
    /\ \A id \in ExtIds : analyzedExtensions[id] = NoExtension
    /\ \A id \in ExtIds : activatedExtensions[id] = NoAct
    /\ \E c \in 1..MaxCalls : calls[c].pc = "loadManifest"

\* C12: a failure while start() loads one extension is contained to that
\* extension: when start() settles, every other extension is analyzed and
\* activated.
C12_ScanContainsFailures ==
    outcome.op = "scan"
        => \A id \in ExtIds :
              id # outcome.error.id
                  => /\ analyzedExtensions[id] # NoExtension
                     /\ activatedExtensions[id] # NoAct

(***************************************************************************)
(* Properties of the registrations and the sessions                        *)
(***************************************************************************)
\* A getSession call is made in the step, and the call it is.
Called == Len(sessionCalls') = Len(sessionCalls) + 1

TheCall == sessionCalls'[Len(sessionCalls')]

\* The step changes nothing the broker or a provider holds.
BrokerUntouched ==
    UNCHANGED <<authenticationProviders, loginDialogRequests,
                loginDialogQueue, requests, callbacks, providerSessions,
                sent, registration, notifications, handles, infoCall>>

NotInstalled(p) == [kind |-> "notInstalled", id |-> p]

\* The createSession calls made on provider p.
CreateSessionCalls(p) ==
    Cardinality({i \in Indices(callbacks) : callbacks[i].providerId = p})

\* C14: registering an id that is already registered fails with the error
\* naming that id, and the existing registration is not replaced.
C14_DuplicateRegistrationFails ==
    [][\A p \in ProviderIds :
          (authOutcome'.op = "register" /\ authOutcome'.id = p
           /\ authenticationProviders[p] # NoProvider)
              => /\ authOutcome'.status = "failed"
                 /\ authOutcome'.error =
                       [kind |-> "alreadyRegistered", id |-> p]
                 /\ authenticationProviders' = authenticationProviders]_vars

\* The second registration of p1, under another label, has just failed.
C14_Witness ==
    /\ authOutcome.op = "register"
    /\ authOutcome.id = "p1"
    /\ authOutcome.status = "failed"
    /\ authenticationProviders["p1"] = "l1"
    /\ authenticationProviders["p2"] = "l2"

\* getAuthenticationProvidersInfo is called in the step.
InfoCalled == infoCall.pc = "idle" /\ infoCall'.pc = "querying"

\* The ids of a set of entries.
Ids(entries) == {e.id : e \in entries}

\* C15: getAuthenticationProvidersInfo lists an id after it was registered
\* and no longer after a handle of it was disposed, and a disposed id is
\* then unregistered for every operation.
C15_InfoFollowsRegistration ==
    [][/\ InfoCalled
            => infoCall'.asked =
                  {p \in ProviderIds : registration[p] = "registered"}
       /\ authOutcome'.op = "info"
            => Ids(authOutcome'.result) = infoCall.asked
       /\ \A p \in ProviderIds :
            registration'[p] = "disposed"
                => authenticationProviders'[p] = NoProvider]_vars

\* getAuthenticationProvidersInfo has just returned one provider, with the
\* other one registered and disposed before.
C15_Witness ==
    /\ authOutcome.op = "info"
    /\ \E p \in ProviderIds, q \in ProviderIds :
          /\ registration[p] = "disposed"
          /\ registration[q] = "registered"
          /\ Ids(authOutcome.result) = {q}

\* C16 as stated: getSession, removeSession and signOut on a provider id
\* that is not registered fail with the error naming that id, call no
\* provider method and change no broker state.
C16_UnregisteredFailsNamingId ==
    [][/\ (Called /\ authenticationProviders[TheCall.providerId] = NoProvider)
            => /\ TheCall.pc = "failed"
               /\ TheCall.error = NotInstalled(TheCall.providerId)
               /\ TheCall.callback = 0
               /\ BrokerUntouched
       /\ (authOutcome'.op \in {"removeSession", "signOut"}
           /\ authenticationProviders[authOutcome'.id] = NoProvider)
            => /\ authOutcome'.status = "failed"
               /\ authOutcome'.error = NotInstalled(authOutcome'.id)
               /\ BrokerUntouched]_vars

\* C16, amended: the same for removeSession, signOut and a getSession called
\* with none of the options it rejects.
C16_UnregisteredFailsWithDefaultOptions ==
    [][/\ (Called /\ authenticationProviders[TheCall.providerId] = NoProvider
           /\ TheCall.option = "none")
            => /\ TheCall.pc = "failed"
               /\ TheCall.error = NotInstalled(TheCall.providerId)
               /\ TheCall.callback = 0
               /\ BrokerUntouched
       /\ (authOutcome'.op \in {"removeSession", "signOut"}
           /\ authenticationProviders[authOutcome'.id] = NoProvider)
            => /\ authOutcome'.status = "failed"
               /\ authOutcome'.error = NotInstalled(authOutcome'.id)
               /\ BrokerUntouched]_vars

\* A getSession on p1 has failed for p1 not being registered, and a signOut
\* on p1 has just failed too.
C16_Witness ==
    /\ authOutcome.op = "signOut"
    /\ authOutcome.status = "failed"
    /\ authOutcome.id = "p1"
    /\ \E c \in Indices(sessionCalls) :
          /\ sessionCalls[c].providerId = "p1"
          /\ sessionCalls[c].error = NotInstalled("p1")

SequentialReuse ==
    \A p \in ProviderIds :
        LET mine == {c \in Indices(sessionCalls) :
                        sessionCalls[c].providerId = p}
        IN  (/\ mine # {}
             /\ \A c \in mine : sessionCalls[c].alone
                                 /\ sessionCalls[c].pc = "done"
             /\ \A n \in Indices(notifications) :
                    notifications[n].providerId # p)
                => CreateSessionCalls(p) = 1

C19_NoCreateWhileSessionExists ==
    [][Len(callbacks') > Len(callbacks)
            => providerSessions[callbacks'[Len(callbacks')].providerId]
                  = NoSession]_vars

\* C20: signOut(providerId, sessionId) on a registered provider that holds
\* that session removes the session and makes the provider fire exactly one
\* session-change event, with that session in removed.
C20_SignOutRemovesAndNotifiesOnce ==
    [][\A p \in ProviderIds :
          (authOutcome'.op = "signOut" /\ authOutcome'.id = p
           /\ authenticationProviders[p] # NoProvider
           /\ providerSessions[p] # NoSession
           /\ authOutcome'.sid = providerSessions[p])
              => /\ authOutcome'.status = "done"
                 /\ providerSessions'[p] = NoSession
                 /\ notifications' = Append(notifications,
                       [providerId |-> p, removed |-> authOutcome'.sid])]_vars

\* signOut has just removed the session its provider held.
C20_Witness ==
    /\ authOutcome.op = "signOut"
    /\ authOutcome.status = "done"
    /\ providerSessions[authOutcome.id] = NoSession
    /\ notifications # <<>>
    /\ notifications[Len(notifications)] =
          [providerId |-> authOutcome.id, removed |-> authOutcome.sid]

\* C21: getAuthenticationProvidersInfo queries every provider registered
\* when it is called, and returns only once all of these queries have
\* settled, with exactly one entry for each of these providers: its id, its
\* label and one account for each session the provider reported.
C21_InfoHasOneEntryPerProvider ==
    [][/\ InfoCalled
            => /\ infoCall'.pending =
                     {p \in ProviderIds : authenticationProviders[p] # NoProvider}
               /\ infoCall'.asked = infoCall'.pending
               /\ \A e \in infoCall'.entries :
                     /\ e.displayName = authenticationProviders[e.id]
                     /\ e.accounts = {sid \in SessionIds :
                                         providerSessions[e.id] = sid}
       /\ authOutcome'.op = "info"
            => /\ infoCall.pending = {}
               /\ authOutcome'.status = "done"
               /\ authOutcome'.result = infoCall.entries
               /\ Ids(authOutcome'.result) = infoCall.asked
               /\ Cardinality(authOutcome'.result)
                     = Cardinality(infoCall.asked)]_vars

\* getAuthenticationProvidersInfo has just returned the entries of two
\* providers, one of them holding a session.
C21_Witness ==
    /\ authOutcome.op = "info"
    /\ Ids(authOutcome.result) = ProviderIds
    /\ \E e \in authOutcome.result, f \in authOutcome.result :
          /\ e.accounts # {}
          /\ f.accounts = {}
          /\ e.displayName # f.displayName

\* A provider fires a session-change event in the step.
ProviderFired == Len(notifications') = Len(notifications) + 1

\* C30: a successful registerAuthenticationProvider sends exactly one
\* 'authentication-provider-update'; afterwards each session-change event of
\* the provider makes the broker fire one onDidChangeSessions event and send
\* one 'authentication-provider-update'; once the handle is disposed, the
\* provider's session-change events make it fire and send nothing.
C30_UpdatesFollowRegistration ==
    [][/\ (authOutcome'.op = "register" /\ authOutcome'.status = "done")
            => authOutcome'.updates = 1 /\ authOutcome'.events = 0
       /\ ProviderFired
            => IF handles[authOutcome'.handle].disposed
               THEN authOutcome'.updates = 0 /\ authOutcome'.events = 0
               ELSE authOutcome'.updates = 1 /\ authOutcome'.events = 1]_vars

\* The provider of a disposed handle has just fired a session-change event,
\* and nothing was sent.
C30_Witness ==
    /\ authOutcome.op = "sessionChange"
    /\ authOutcome.handle \in Indices(handles)
    /\ handles[authOutcome.handle].disposed
    /\ authOutcome.updates = 0
    /\ notifications # <<>>
    /\ notifications[Len(notifications)].providerId = authOutcome.id

\* C26: a getSession call an extension makes through its capability API with
\* (providerId, scopes, options) reaches the broker unchanged: for a
\* registered providerId it is served by that provider, so it does not fail
\* and a getSession call on that provider is under way.
C26_ApiGetSessionIsForwarded ==
    [][(authOutcome'.op = "apiGetSession"
        /\ authenticationProviders[authOutcome'.id] # NoProvider)
            => /\ authOutcome'.status # "failed"
               /\ Called
               /\ TheCall.providerId = authOutcome'.id]_vars

\* C27: with a user who closes every dialog shown, every login request
\* whose 'display-authentication-dialog' was sent has its close notification
\* fired in the end, and the login-dialog queue becomes idle.
C27_EveryDialogIsClosed ==
    /\ \A r \in 1..MaxRequests :
          (r \in Indices(requests))
              ~> (r \in Indices(requests) /\ requests[r].closed)
    /\ (loginDialogQueue # <<>>) ~> (loginDialogQueue = <<>>)

\* C25: an id of the analyzed map stays there with the same root path and
\* removable flag whatever deactivateExtension, stopAllExtensions and
\* startExtension calls are made: the only step that changes its entry is
\* the end of a successful removeExtension, which takes it out.
C25_AnalyzedPersists ==
    [][\A id \in ExtIds :
          (analyzedExtensions[id] # NoExtension
           /\ analyzedExtensions'[id] # analyzedExtensions[id])
              => /\ analyzedExtensions'[id] = NoExtension
                 /\ outcome'.op = "remove"
                 /\ outcome'.status = "done"]_vars

\* A startExtension has just reloaded an extension that was activated
\* before, and both extensions are analyzed.
C25_Witness ==
    /\ outcome.op = "start"
    /\ outcome.status = "done"
    /\ Len(contexts) = 2
    /\ contexts[1].id = contexts[2].id
    /\ analyzedExtensions[contexts[1].id] # NoExtension

\* C28: when a load stores the activated record of an id that has one
\* already, the subscriptions of the record it replaces have all been
\* disposed: no activation is replaced before it was deactivated.
C28_ReplacedActivationWasDeactivated ==
    [][\A id \in ExtIds :
          (activatedExtensions[id] # NoAct
           /\ activatedExtensions'[id] # NoAct
           /\ activatedExtensions'[id] # activatedExtensions[id])
              => \A i \in Indices(Released(activatedExtensions[id])) :
                    contexts'[activatedExtensions[id]].subscriptions[i] >= 1]_vars

\* C29: every id in the activated map is in the analyzed map.
C29_ActivatedAreAnalyzed ==
    \A id \in ExtIds :
        activatedExtensions[id] # NoAct
            => analyzedExtensions[id] # NoExtension

\* Module k lies in the bundle folder f.
Under(k, f) == StartsWith(k, Root(f) \o <<"/">>)

\* C22: once the override is installed, a load of the capability API asked
\* by a module that lies under the root of an analyzed extension returns the
\* API of that extension, and the load fails when no analyzed extension's
\* root is a prefix of the module's path.
C22_ApiOfTheRequestingExtension ==
    [][(moduleEvent'.op = "load" /\ moduleEvent'.request = ApiName
        /\ overrideRequireDone)
            => /\ \A i \in DOMAIN registry :
                     Under(moduleEvent'.parent, registry[i])
                         => /\ moduleEvent'.status = "api"
                            /\ moduleEvent'.api = registry[i]
               /\ (\A i \in DOMAIN registry :
                      ~StartsWith(moduleEvent'.parent, Root(registry[i])))
                         => moduleEvent'.status = "failed"]_vars

\* C23: when a bundle is loaded, no module of its folder that is not native
\* is served from the cache of before the load: those the cache holds after
\* the load had their top-level code run in this load.
C23_NoModuleFromOldCache ==
    [][moduleEvent'.op = "loadRuntime"
            => \A k \in ModuleKeys :
                  (Under(k, moduleEvent'.folder) /\ ~IsNative(k)
                   /\ moduleCache'[k] # NotCached)
                      => moduleCache'[k] = moduleEvent'.load]_vars

\* C24: a reload of a bundle runs the top-level code of its entry module
\* again, once, and leaves every cached module that is not of the bundle in
\* the cache as it was.
C24_ReloadRunsEntryAgain ==
    [][moduleEvent'.op = "loadRuntime"
            => /\ moduleCache'[Main(moduleEvent'.folder)] = moduleEvent'.load
               /\ moduleEvent'.load = loads + 1
               /\ \A k \in ModuleKeys :
                     ~Under(k, moduleEvent'.folder)
                         => moduleCache'[k] = moduleCache[k]]_vars

\* plugins/b has just been reloaded while modules of plugins/bb and of the
\* host are cached.
C24_Witness ==
    /\ moduleEvent.op = "loadRuntime"
    /\ moduleEvent.folder = "plugins/b"
    /\ moduleCache[Main("plugins/b")] = moduleEvent.load
    /\ moduleCache[Lib("plugins/b")] \notin {NotCached, moduleEvent.load}
    /\ moduleCache[Main("plugins/bb")] \notin {NotCached, moduleEvent.load}
    /\ moduleCache[HostModule] = 1

\* C31: loginDialogClosedByUser(providerId) with a request of providerId in
\* the map of login requests disposes that request: its close notification
\* fires, one 'close-authentication-dialog' is broadcast and the entry is
\* removed from the map; with no entry for providerId nothing changes and
\* nothing is broadcast.
C31_ClosedByUserDisposesThePending ==
    [][authOutcome'.op = "loginDialogClosedByUser"
          => LET p == authOutcome'.id
                 r == loginDialogRequests[p]
             IN  IF r # NoRequest
                 THEN /\ ~requests[r].closed
                      /\ requests'[r].closed
                      /\ sent' = Append(sent, CloseDialog)
                      /\ loginDialogRequests' =
                            [loginDialogRequests EXCEPT ![p] = NoRequest]
                      /\ loginDialogQueue' = loginDialogQueue
                 ELSE UNCHANGED <<loginDialogRequests, sent, requests,
                                  loginDialogQueue>>]_vars

\* The user has just closed the dialog of a pending request.
C31_Witness ==
    /\ authOutcome.op = "loginDialogClosedByUser"
    /\ loginDialogRequests[authOutcome.id] = NoRequest
    /\ \E r \in Indices(requests) :
          /\ requests[r].providerId = authOutcome.id
          /\ requests[r].closed
          /\ requests[r].closedAt = Len(sent)

\* The removeExtension calls that settle in this step having gone through
\* the deactivation and the deletion of the bundle.
Removing ==
    {c \in 1..MaxCalls :
        /\ calls[c].op = "remove"
        /\ calls[c].pc = "rmDone"
        /\ calls'[c] = IdleCall}

\* C32: a successful removeExtension(id) of an analyzed, removable extension
\* has deactivated the extension, then deleted its bundle, then removes id
\* from the analyzed map and sends exactly one 'extension-removed'; a
\* removeExtension that fails or does nothing sends none.
C32_RemoveOrder ==
    [][/\ \A c \in Removing :
             /\ calls[c].removable
             /\ calls[c].kids[calls[c].id].pc = "done"
             /\ calls[c].path \notin disk
             /\ analyzedExtensions'[calls[c].id] = NoExtension
             /\ extensionRemoved' = extensionRemoved + 1
             /\ outcome' = Outcome("remove", "done", NoError)
       /\ Removing = {} => extensionRemoved' = extensionRemoved
       /\ (outcome'.op = "remove" /\ outcome'.status = "failed")
             => extensionRemoved' = extensionRemoved]_vars

\* plugins/b, which had been activated, has just been removed.
C32_Witness ==
    /\ outcome = Outcome("remove", "done", NoError)
    /\ extensionRemoved = 1
    /\ analyzedExtensions["b"] = NoExtension
    /\ activatedExtensions["b"] = NoAct
    /\ "plugins/b" \notin disk
    /\ \E a \in Indices(contexts) : contexts[a].id = "b"

\* C33: a removeExtension that fails because the extension is not removable
\* leaves the lifecycle state as it was: the activated record the extension
\* had when the call was made is still in the activated map, and none of its
\* subscriptions has been disposed by the call.
C33_NotRemovableLeavesActivated ==
    [][\A c \in 1..MaxCalls :
          (/\ calls[c].op = "remove"
           /\ calls'[c] = IdleCall
           /\ outcome'.error.kind = "notRemovable"
           /\ calls[c].act # NoAct)
              => activatedExtensions'[calls[c].id] = calls[c].act]_vars

\* The deactivateExtension(id) of call c was awaiting the extension's
\* deactivate, which rejects in this step.
DeactivateRejected(c, id) ==
    /\ calls[c].kids[id].pc = "deactivateFn"
    /\ \/ outcome' = Outcome("deactivate", "failed",
                             [kind |-> "deactivate", id |-> id])
       \/ /\ calls'[c].op # "idle"
          /\ calls'[c].kids[id].error = [kind |-> "deactivate", id |-> id]

\* C34: when the deactivate callback of an extension throws or rejects,
\* deactivateExtension still disposes every subscription of the extension
\* and removes the id from the activated map.
C34_FailingDeactivateStillCleansUp ==
    [][\A c \in 1..MaxCalls, id \in ExtIds :
          DeactivateRejected(c, id)
              => LET a == calls[c].kids[id].act
                 IN  /\ activatedExtensions'[id] # a
                     /\ \A i \in Indices(contexts'[a].subscriptions) :
                           contexts'[a].subscriptions[i] >= 1]_vars

\* The bundles of the analyzed extensions.
Analyzed == {registry[i] : i \in DOMAIN registry}

\* C35: a request for the capability API from a module inside the root
\* folder of extension E returns the API of E whenever E is analyzed, and
\* never the API of another extension, also when the root of one extension
\* is a string prefix of the root of another.
C35_ApiIsolation ==
    [][(moduleEvent'.op = "load" /\ moduleEvent'.request = ApiName
        /\ overrideRequireDone)
            => \A f \in Bundles :
                  Under(moduleEvent'.parent, f)
                      => /\ moduleEvent'.status = "api"
                              => moduleEvent'.api = f
                         /\ f \in Analyzed
                              => moduleEvent'.status = "api"]_vars

\* C36: the dispose of a login dialog handle closes its own request only:
\* the close notification of no other request fires, the map entry of
\* another pending request stays, and the dispose of a handle that was
\* disposed before has no effect.
C36_DisposeClosesOwnRequestOnly ==
    [][authOutcome'.op = "handleDispose"
          => LET r == authOutcome'.handle
             IN  /\ \A q \in Indices(requests) \ {r} :
                       requests'[q] = requests[q]
                 /\ \A p \in ProviderIds :
                       loginDialogRequests[p] \notin {NoRequest, r}
                           => loginDialogRequests'[p] = loginDialogRequests[p]
                 /\ requests[r].closed
                       => UNCHANGED <<requests, loginDialogRequests, sent>>]_vars

\* C37: the dispose of a registration handle removes the registration that
\* made the handle and no other: when the id has been registered anew since,
\* the dispose of the old handle leaves the newer registration in the map.
C37_DisposeRemovesOwnRegistrationOnly ==
    [][authOutcome'.op = "dispose"
          => LET h == authOutcome'.handle
                 p == handles[h].id
             IN  (authenticationProviders[p] # NoProvider
                  /\ CurrentHandle(p) # h)
                     => authenticationProviders'[p] = authenticationProviders[p]]_vars

\* C38: loadExtension stores the extension with its API in the analyzed map
\* before the runtime module is imported, so the request for the capability
\* API the extension's code makes during the import is answered with the
\* API object this load built, the one stored for the bundle.
C38_ImportGetsTheApiOfThisLoad ==
    [][moduleEvent'.op = "loadRuntime"
          => /\ \E i \in DOMAIN registry' : registry'[i] = moduleEvent'.folder
             /\ moduleEvent'.status = "api"
             /\ moduleEvent'.api = moduleEvent'.folder]_vars

\* The native modules in the cache.
CachedNative == {k \in ModuleKeys : IsNative(k) /\ moduleCache[k] # NotCached}

\* C39 as stated: the cleaning of the cache leaves every cached native
\* module in the cache, with its exports, and in the children list of its
\* parent, also when the module lies under the extension that is reloaded.
C39_NativeNeverTouched ==
    [][moduleEvent'.op = "loadRuntime"
          => \A k \in CachedNative :
                /\ moduleCache'[k] = moduleCache[k]
                /\ k \in moduleExports => k \in moduleExports'
                /\ k \notin moduleEvent'.detached]_vars

\* C39, amended: the cleaning of the cache leaves every cached native module
\* in the cache, with its exports, and in the children list of every module
\* that stays in the cache; it is deleted from the children list of a module
\* of the extension that the cleaning evicts.
C39_NativeStaysCached ==
    [][moduleEvent'.op = "loadRuntime"
          => \A k \in CachedNative :
                /\ moduleCache'[k] = moduleCache[k]
                /\ k \in moduleExports => k \in moduleExports'
                /\ \A m \in ModuleKeys :
                      (k \in moduleChildren[m]
                       /\ moduleCache'[m] = moduleCache[m])
                          => k \in moduleChildren'[m]]_vars

\* plugins/bb has just been reloaded while its native addon, which lies
\* under its root and which its entry module requires, was cached.
C39_Witness ==
    /\ moduleEvent.op = "loadRuntime"
    /\ moduleEvent.folder = "plugins/bb"
    /\ moduleCache[Addon("plugins/bb")] \notin {NotCached, moduleEvent.load}
    /\ Addon("plugins/bb") \in moduleExports
    /\ Addon("plugins/bb") \in moduleEvent.detached
    /\ Addon("plugins/bb") \in moduleChildren[Main("plugins/bb")]

\* The ids that have been loaded as not removable.
LoadedNotRemovable ==
    {contexts[a].id : a \in {b \in Indices(contexts) : ~contexts[b].removable}}

\* C40: an extension that was loaded as not removable is never deleted from
\* disk and never dropped from the analyzed map by removeExtension, also
\* after another bundle whose manifest declares the same name has been
\* loaded as removable.
C40_BuiltinIsNeverRemoved ==
    [][/\ \A c \in Removing : calls[c].id \notin LoadedNotRemovable
       /\ \A f \in BuiltinFolders : f \in disk => f \in disk']_vars

====
